---- MODULE Spec2Model ----
(***************************************************************************)
(* Verification model of the truthtable backend (src/backend/server.js):   *)
(* the restaurant merge engine (intelligentMergeRestaurants and the        *)
(* similarity primitives it uses) and the in-process TTL cache together   *)
(* with the /api/search-restaurants handler that reads and writes it.     *)
(*                                                                         *)
(* Text is modelled by TLA+ strings; a character is a string of length 1.  *)
(* Similarities are exact rationals held as integers over a fixed scale   *)
(* (SimScale, ScoreScale), so that comparisons against the thresholds of   *)
(* the code are exact.                                                     *)
(***************************************************************************)
EXTENDS Integers, Sequences, FiniteSets, TLC

(***************************************************************************)
(* Text primitives (JavaScript String methods used by the code).           *)
(***************************************************************************)
Char(s, i) == SubSeq(s, i, i)

UpperChars == "ABCDEFGHIJKLMNOPQRSTUVWXYZ"
LowerChars == "abcdefghijklmnopqrstuvwxyz"
DigitChars == "0123456789"

RECURSIVE IndexOfChar(_, _, _)
\* position of character c in s at or after i, 0 when absent
IndexOfChar(s, c, i) ==
  IF i > Len(s) THEN 0
  ELSE IF Char(s, i) = c THEN i
  ELSE IndexOfChar(s, c, i + 1)

\* \w of a JavaScript regular expression
IsWordChar(c) ==
  \/ IndexOfChar(LowerChars, c, 1) > 0
  \/ IndexOfChar(UpperChars, c, 1) > 0
  \/ IndexOfChar(DigitChars, c, 1) > 0
  \/ c = "_"

\* \s of a JavaScript regular expression (the inputs use the blank only)
IsSpaceChar(c) == c = " "

LowerChar(c) ==
  LET k == IndexOfChar(UpperChars, c, 1)
  IN  IF k > 0 THEN Char(LowerChars, k) ELSE c

RECURSIVE toLowerCase(_)
\* (the text is lower-cased half by half)
toLowerCase(s) ==
  IF Len(s) = 0 THEN ""
  ELSE IF Len(s) = 1 THEN LowerChar(s)
  ELSE toLowerCase(SubSeq(s, 1, Len(s) \div 2))
         \o toLowerCase(SubSeq(s, Len(s) \div 2 + 1, Len(s)))

RECURSIVE replaceAmpersand(_)
\* .replace(/&/g, 'and')
replaceAmpersand(s) ==
  IF Len(s) = 0 THEN ""
  ELSE (IF Char(s, 1) = "&" THEN "and" ELSE Char(s, 1))
         \o replaceAmpersand(SubSeq(s, 2, Len(s)))

RECURSIVE removeSpecial(_)
\* .replace(/[^\w\s]/g, '')
removeSpecial(s) ==
  IF Len(s) = 0 THEN ""
  ELSE (IF IsWordChar(Char(s, 1)) \/ IsSpaceChar(Char(s, 1)) THEN Char(s, 1) ELSE "")
         \o removeSpecial(SubSeq(s, 2, Len(s)))

RECURSIVE trimStart(_)
trimStart(s) ==
  IF Len(s) > 0 /\ IsSpaceChar(Char(s, 1)) THEN trimStart(SubSeq(s, 2, Len(s))) ELSE s

RECURSIVE trimEnd(_)
trimEnd(s) ==
  IF Len(s) > 0 /\ IsSpaceChar(Char(s, Len(s))) THEN trimEnd(SubSeq(s, 1, Len(s) - 1)) ELSE s

trim(s) == trimEnd(trimStart(s))

RECURSIVE collapseSpaces(_)
\* .replace(/\s+/g, ' ')
collapseSpaces(s) ==
  IF Len(s) = 0 THEN ""
  ELSE IF IsSpaceChar(Char(s, 1))
       THEN " " \o collapseSpaces(trimStart(s))
       ELSE Char(s, 1) \o collapseSpaces(SubSeq(s, 2, Len(s)))

RECURSIVE split(_, _)
\* s.split(sep) for a one-character separator: the sequence of the pieces
split(s, sep) ==
  LET k == IndexOfChar(s, sep, 1)
  IN  IF k = 0 THEN <<s>>
      ELSE <<SubSeq(s, 1, k - 1)>> \o split(SubSeq(s, k + 1, Len(s)), sep)

RECURSIVE join(_, _)
join(parts, sep) ==
  IF Len(parts) = 0 THEN ""
  ELSE IF Len(parts) = 1 THEN parts[1]
  ELSE parts[1] \o sep \o join(Tail(parts), sep)

RECURSIVE includes(_, _)
\* String.prototype.includes
includes(s, sub) ==
  IF Len(sub) > Len(s) THEN FALSE
  ELSE IF SubSeq(s, 1, Len(sub)) = sub THEN TRUE
  ELSE includes(SubSeq(s, 2, Len(s)), sub)

Max(a, b) == IF a >= b THEN a ELSE b
Min(a, b) == IF a <= b THEN a ELSE b
Abs(a) == IF a >= 0 THEN a ELSE 0 - a

(***************************************************************************)
(* Fixed-point scales.  Unit is a common multiple of every denominator a   *)
(* similarity can have (string lengths and token counts up to 16), so the  *)
(* divisions below are exact.  A similarity s is held as s * SimScale and  *)
(* a match score m as m * ScoreScale.                                      *)
(***************************************************************************)
Unit == 16 * 9 * 5 * 7 * 11 * 13
SimScale == 10 * Unit
ScoreScale == 100 * SimScale

(***************************************************************************)
(* Similarity primitives.                                                  *)
(***************************************************************************)
StopWords ==
  {"restaurant", "grill", "bar", "cafe", "kitchen", "house", "place", "diner",
   "eatery", "bistro", "pub", "inn", "lounge", "shop", "store"}

\* .replace(/\b(restaurant|grill|...)\b/g, ''): after removeSpecial the text
\* holds word characters and blanks only, so the words between \b are the
\* blank-separated pieces
removeStopWords(s) ==
  LET parts == split(s, " ")
  IN  join([i \in 1..Len(parts) |-> IF parts[i] \in StopWords THEN "" ELSE parts[i]], " ")

normalizeRestaurantName(name) ==
  IF name = "" THEN ""
  ELSE collapseSpaces(trim(removeStopWords(removeSpecial(replaceAmpersand(toLowerCase(name))))))

normalizeAddress(address) ==
  IF address = "" THEN ""
  ELSE trim(collapseSpaces(removeSpecial(toLowerCase(address))))

RECURSIVE levenshteinRow(_, _, _, _, _)
\* cells j..Len(a) of row i of the matrix, appended to cur (cells 0..j-1)
levenshteinRow(a, b, i, prev, cur) ==
  LET j == Len(cur)
  IN  IF j > Len(a) THEN cur
      ELSE LET cell == IF Char(b, i) = Char(a, j)
                       THEN prev[j]
                       ELSE Min(prev[j] + 1, Min(cur[j] + 1, prev[j + 1] + 1))
           IN  levenshteinRow(a, b, i, prev, Append(cur, cell))

RECURSIVE levenshteinRows(_, _, _, _)
levenshteinRows(a, b, i, prev) ==
  IF i > Len(b) THEN prev
  ELSE levenshteinRows(a, b, i + 1, levenshteinRow(a, b, i, prev, <<i>>))

levenshteinDistance(a, b) ==
  IF Len(a) = 0 THEN Len(b)
  ELSE IF Len(b) = 0 THEN Len(a)
  ELSE levenshteinRows(a, b, 1, [j \in 1..(Len(a) + 1) |-> j - 1])[Len(a) + 1]

significantTokens(s) == SelectSeq(split(s, " "), LAMBDA token : Len(token) > 1)

SeqIncludes(seq, e) == \E i \in 1..Len(seq) : seq[i] = e

\* (2 * intersection.length) / (tokens1.length + tokens2.length), value * Unit;
\* computed when both strings have a token longer than one character
tokenSimilarity(s1, s2) ==
  LET tokens1 == significantTokens(s1)
      tokens2 == significantTokens(s2)
      intersection == SelectSeq(tokens1, LAMBDA token : SeqIncludes(tokens2, token))
  IN  (2 * Len(intersection) * Unit) \div (Len(tokens1) + Len(tokens2))

\* value * SimScale
advancedStringSimilarity(s1, s2) ==
  IF s1 = "" \/ s2 = "" THEN 0
  ELSE LET len1 == Len(s1)
           len2 == Len(s2)
           levenshteinDist == levenshteinDistance(s1, s2)
           maxLen == Max(len1, len2)
           tokens1 == significantTokens(s1)
           tokens2 == significantTokens(s2)
       IN  IF Len(tokens1) = 0 \/ Len(tokens2) = 0
           THEN ((maxLen - levenshteinDist) * SimScale) \div maxLen
           ELSE 6 * (((maxLen - levenshteinDist) * Unit) \div maxLen)
                  + 4 * tokenSimilarity(s1, s2)

\* value * SimScale
calculateAddressSimilarity(addr1, addr2) ==
  IF addr1 = "" \/ addr2 = "" THEN 0
  ELSE advancedStringSimilarity(split(normalizeAddress(addr1), ",")[1],
                                split(normalizeAddress(addr2), ",")[1])

\* A location is <<>> (missing) or <<p>>, p a position in metres along one
\* street; calculateDistance is the distance between two positions
NoLocation == <<>>
calculateDistance(loc1, loc2) == Abs(loc1[1] - loc2[1])

\* value * 10; the limits 0.05, 0.2 and 0.5 km are in metres here
calculateGeoSimilarity(loc1, loc2) ==
  IF loc1 = NoLocation \/ loc2 = NoLocation THEN 0
  ELSE LET distance == calculateDistance(loc1, loc2)
       IN  IF distance < 50 THEN 10
           ELSE IF distance < 200 THEN 8
           ELSE IF distance < 500 THEN 5
           ELSE 0

\* value * ScoreScale
calculateMatchScore(r1, r2) ==
  LET nameSim == 55 * advancedStringSimilarity(normalizeRestaurantName(r1.name),
                                               normalizeRestaurantName(r2.name))
      addrSim == 35 * calculateAddressSimilarity(r1.address, r2.address)
      geoSim  == 10 * (calculateGeoSimilarity(r1.location, r2.location) * Unit)
  IN  nameSim + addrSim + geoSim

(***************************************************************************)
(* Listings.  A field the JavaScript object lacks (undefined / null) is    *)
(* the empty string, an empty location, or 0 for rating and counts: the   *)
(* code tests these fields by truthiness only.                             *)
(***************************************************************************)
Undefined == ""

\* a record of /api/google-places (server.js 368-380)
GoogleListing(id, name, address, location, rating, priceLevel, cuisine, totalRatings) ==
  [id |-> id, name |-> name, address |-> address, location |-> location,
   rating |-> rating, priceLevel |-> priceLevel, cuisine |-> cuisine,
   totalRatings |-> totalRatings, reviewCount |-> 0,
   businessStatus |-> "OPERATIONAL", permanentlyClosedFactor |-> 1]

\* a record of /api/yelp-search (server.js 475-487); it has no businessStatus
\* and no permanentlyClosedFactor, and undefined is not === 0
YelpListing(id, name, address, location, rating, priceLevel, cuisine, reviewCount) ==
  [id |-> id, name |-> name, address |-> address, location |-> location,
   rating |-> rating, priceLevel |-> priceLevel, cuisine |-> cuisine,
   totalRatings |-> 0, reviewCount |-> reviewCount,
   businessStatus |-> Undefined, permanentlyClosedFactor |-> 1]

\* ENHANCED_CUISINE_KEYWORDS.regional, in property order, with the label
\* classifyEnhancedCuisineType builds for the region
RegionalKeywords ==
  << [label |-> "Mexican Regional",
      keywords |-> {"mexican", "mexicana", "guadalajara", "oaxaca", "puebla", "yucatan"}],
     [label |-> "Tex-mex Regional",
      keywords |-> {"tex-mex", "southwestern", "border", "austin", "san-antonio"}],
     [label |-> "Peruvian Regional",
      keywords |-> {"peruvian", "lima", "ceviche", "inca", "pisco"}],
     [label |-> "Spanish Regional",
      keywords |-> {"spanish", "tapas", "paella", "andaluz", "barcelona"}] >>

\* the other entries of ENHANCED_CUISINE_KEYWORDS, in property order
StyleKeywords ==
  << [label |-> "Authentic",
      keywords |-> {"traditional", "family", "authentic", "abuela", "casa", "familia",
                    "home-made", "generational"}],
     [label |-> "Upscale",
      keywords |-> {"cocina", "cantina", "contemporary", "modern", "craft", "artisanal",
                    "chef-driven"}],
     [label |-> "Casual",
      keywords |-> {"taqueria", "grill", "truck", "spot", "joint", "hole-in-wall",
                    "neighborhood"}],
     [label |-> "Fusion",
      keywords |-> {"fusion", "modern", "contemporary", "nuevo", "innovative", "creative"}] >>

RECURSIVE firstKeywordLabel(_, _, _)
\* label of the first entry of table (from i on) one of whose keywords occurs
\* in text, "" when there is none
firstKeywordLabel(table, text, i) ==
  IF i > Len(table) THEN ""
  ELSE IF \E keyword \in table[i].keywords : includes(text, keyword) THEN table[i].label
  ELSE firstKeywordLabel(table, text, i + 1)

classifyEnhancedCuisineType(name, cuisine) ==
  LET combinedText == toLowerCase(name) \o " " \o toLowerCase(cuisine)
      regional == firstKeywordLabel(RegionalKeywords, combinedText, 1)
      style == firstKeywordLabel(StyleKeywords, combinedText, 1)
  IN  IF regional /= "" THEN regional
      ELSE IF style /= "" THEN style
      ELSE IF cuisine /= "Restaurant" THEN cuisine ELSE "Standard"

\* chainIndicators of detectChainRestaurant
ChainIndicators ==
  {"mcdonald's", "burger king", "subway", "starbucks", "chipotle", "pizza hut", "domino's",
   "kfc", "taco bell", "wendy's", "panda express"}

detectChainRestaurant(name) ==
  \E chain \in ChainIndicators : includes(toLowerCase(name), chain)

\* the set of features of identifyEnhancedSpecialFeatures; the listings have
\* no `types`; rating is in tenths
identifyEnhancedSpecialFeatures(restaurant, source) ==
  LET name == toLowerCase(restaurant.name)
      cuisine == toLowerCase(restaurant.cuisine)
      reviewCount == IF restaurant.reviewCount /= 0 THEN restaurant.reviewCount
                     ELSE restaurant.totalRatings
      feature(label, present) == IF present THEN {label} ELSE {}
  IN  feature("Craft Cocktails",
              includes(name, "tequila") \/ includes(name, "mezcal")
                \/ includes(name, "cocktail bar"))
      \cup feature("Outdoor Seating",
                   includes(name, "rooftop") \/ includes(name, "patio")
                     \/ includes(name, "garden"))
      \cup feature("Late Night",
                   includes(name, "24 hour") \/ includes(name, "late night")
                     \/ includes(name, "midnight"))
      \cup feature("Plant-Based Options",
                   includes(cuisine, "vegan") \/ includes(cuisine, "vegetarian")
                     \/ includes(name, "plant-based"))
      \cup feature("Family-Friendly",
                   includes(name, "family") \/ includes(name, "kids menu")
                     \/ includes(name, "children"))
      \cup feature("Extensive Wine List",
                   includes(name, "wine bar") \/ includes(name, "wine list")
                     \/ includes(name, "sommelier"))
      \cup feature("Chef-Driven / Fine Dining",
                   includes(name, "chef's table") \/ includes(name, "tasting menu")
                     \/ includes(cuisine, "fine dining"))
      \cup feature("Highly-Rated", restaurant.rating /= 0 /\ restaurant.rating >= 47)
      \cup feature("Hidden Gem",
                   restaurant.rating /= 0 /\ restaurant.rating >= 45
                     /\ reviewCount > 10 /\ reviewCount < 100)
      \cup feature("Chain Restaurant", detectChainRestaurant(restaurant.name))
      \cup feature("Cross-Platform Verified",
                   includes(source, "Yelp") /\ includes(source, "Google"))

\* x / y rounded to the nearest integer (x >= 0, y > 0), as toFixed rounds
RoundDiv(x, y) == (2 * x + y) \div (2 * y)

\* calculatePlatformConsistency, in hundredths (the value after toFixed(2));
\* ratings are in tenths and a rating of 0 is a missing rating.  The score
\* before rounding is num / den.
calculatePlatformConsistency(googleData, yelpData) ==
  LET gCount == googleData.totalRatings
      yCount == yelpData.reviewCount
      ratingDiff == Abs(googleData.rating - yelpData.rating)
      totalReviews == gCount + yCount
      few == Min(gCount, yCount) < 10 /\ totalReviews > 20
      \* consistencyScore = base / 200 with the factor 0.8 applied or not
      base == IF few THEN 4 * (40 - ratingDiff) ELSE 5 * (40 - ratingDiff)
      num == IF totalReviews > 0
             THEN 7 * base * Max(gCount, yCount) + 3 * 200 * Min(gCount, yCount)
             ELSE 7 * 5 * (40 - ratingDiff)
      den == IF totalReviews > 0 THEN 10 * 200 * Max(gCount, yCount) ELSE 10 * 200
  IN  IF googleData.rating = 0 \/ yelpData.rating = 0 THEN 70
      ELSE Max(0, Min(100, IF num >= 0 THEN RoundDiv(100 * num, den)
                           ELSE 0 - RoundDiv(100 * (0 - num), den)))

(***************************************************************************)
(* Inputs of the merge engine.                                             *)
(***************************************************************************)
MaxGoogle == 3
MaxYelp == 2

BoundedSeq(S, n) == UNION {[1..k -> S] : k \in 0..n}

GoogleUniverse ==
  { GoogleListing("g1", "Taco Bar",  "1 Elm St", <<0>>,   45, "$$", "Mexican",    120),
    GoogleListing("g2", "Taco Cafe", "1 Elm St", <<100>>, 40, "",   "Restaurant", 8),
    GoogleListing("g3", "Taco Bar",  "2 Elm St", <<100>>, 38, "$",  "Restaurant", 30),
    GoogleListing("g4", "Tico's",    "1 Elm St", <<0>>,   47, "$$$", "Tapas",     15),
    GoogleListing("g5", "Cafe",      "",         NoLocation, 0, "", "",           0) }

YelpUniverse ==
  { YelpListing("y1", "Taco Bar", "1 Elm St", <<0>>,   40, "$$", "Mexican",    200),
    YelpListing("y2", "Taco Bar", "3 Elm St", <<100>>, 35, "$",  "Tacos",      12),
    YelpListing("y3", "TACO",     "",         <<100>>, 30, "$",  "Restaurant", 3),
    YelpListing("y4", "Tico's",   "1 Elm St", <<0>>,   45, "$$", "Spanish",    40),
    YelpListing("y5", "Cafe",     "",         NoLocation, 25, "$", "Restaurant", 1) }

\* Listings of the search pipeline: among them a closed chain restaurant,
\* a temporarily closed one, a listing without rating and two listings that
\* differ in id and address only
SearchGoogleUniverse ==
  { GoogleListing("g1", "Taco Bar",  "1 Elm St", <<0>>,   45, "$$", "Mexican",    120),
    GoogleListing("g4", "Tico's",    "1 Elm St", <<0>>,   47, "$$$", "Tapas",     15),
    GoogleListing("g6", "Tico's",    "6 Elm St", <<0>>,   47, "$$$", "Tapas",     15),
    [GoogleListing("g7", "Taco Bell", "7 Oak St", <<4000>>, 41, "$", "Mexican", 900)
       EXCEPT !.permanentlyClosedFactor = 0],
    [GoogleListing("g8", "Casa Maria", "8 Oak St", <<12000>>, 0, "", "Mexican", 0)
       EXCEPT !.businessStatus = "CLOSED_TEMPORARILY"] }

SearchYelpUniverse ==
  { YelpListing("y1", "Taco Bar", "1 Elm St", <<0>>,   40, "$$", "Mexican",    200),
    YelpListing("y4", "Tico's",   "1 Elm St", <<0>>,   45, "$$", "Spanish",    40),
    YelpListing("y6", "Mezcal Garden", "9 Oak St", <<2500>>, 46, "$$$$", "Cocktail Bars", 60),
    YelpListing("y8", "Casa Maria", "8 Oak St", <<12000>>, 20, "$", "Mexican", 4) }

AllListings == GoogleUniverse \cup YelpUniverse \cup SearchGoogleUniverse \cup SearchYelpUniverse

(***************************************************************************)
(* Tables of the text computations over the listings above.  They hold the *)
(* values of calculateMatchScore, listingKey and                           *)
(* classifyEnhancedCuisineType, computed once.                             *)
(***************************************************************************)
profile(r) == [name |-> r.name, address |-> r.address, location |-> r.location]

Profiles == {profile(r) : r \in AllListings}

\* f as an enumerated function (f @@ the empty function is f)
Tabulated(f) == f @@ [x \in {} |-> x]

matchScoreTable ==
  Tabulated([r1 \in Profiles, r2 \in Profiles |-> calculateMatchScore(r1, r2)])

matchScore(r1, r2) == matchScoreTable[profile(r1), profile(r2)]

listingKeyTable ==
  Tabulated([p \in Profiles |-> normalizeRestaurantName(p.name) \o normalizeAddress(p.address)])

listingKey(r) == listingKeyTable[profile(r)]

cuisineTypeTable ==
  Tabulated([r \in AllListings |->
               classifyEnhancedCuisineType(r.name,
                                           IF r.cuisine /= Undefined THEN r.cuisine
                                           ELSE "Restaurant")])

specialFeaturesTable ==
  Tabulated([r \in AllListings, source \in {"Google Places", "Yelp"} |->
               identifyEnhancedSpecialFeatures(r, source)])

\* The merged entity built from one listing.  srcA and srcB are history
\* fields (not in the code): the positions in googleRestaurants and
\* yelpRestaurants of the records whose data the entity carries.
enhanceRestaurantData(restaurant, platform, source, googleId, yelpId, srcA, srcB) ==
  [id |-> restaurant.id, name |-> restaurant.name, address |-> restaurant.address,
   location |-> restaurant.location, rating |-> restaurant.rating,
   priceLevel |-> restaurant.priceLevel, cuisine |-> restaurant.cuisine,
   totalRatings |-> restaurant.totalRatings, reviewCount |-> restaurant.reviewCount,
   businessStatus |-> restaurant.businessStatus,
   permanentlyClosedFactor |-> restaurant.permanentlyClosedFactor,
   platform |-> platform, source |-> source,
   googleId |-> googleId, yelpId |-> yelpId,
   yelpRating |-> 0, yelpReviewCount |-> 0,
   cuisineType |-> cuisineTypeTable[restaurant],
   specialFeatures |-> specialFeaturesTable[restaurant, source],
   crossPlatformVerified |-> FALSE,
   platformConsistency |-> 100,
   srcA |-> srcA, srcB |-> srcB]

(***************************************************************************)
(* The merge engine.  `merged` is a JavaScript Map: a sequence of entries  *)
(* [key, val] in insertion order; set() on a present key replaces the      *)
(* value and keeps the entry's position.                                   *)
(***************************************************************************)
RECURSIVE mapIndex(_, _, _)
\* position of key in the Map (from i on), 0 when absent
mapIndex(m, key, i) ==
  IF i > Len(m) THEN 0
  ELSE IF m[i].key = key THEN i
  ELSE mapIndex(m, key, i + 1)

mapHas(m, key) == mapIndex(m, key, 1) > 0

mapSet(m, key, val) ==
  LET k == mapIndex(m, key, 1)
  IN  IF k > 0 THEN [m EXCEPT ![k] = [key |-> key, val |-> val]]
      ELSE Append(m, [key |-> key, val |-> val])

mapValues(m) == [i \in 1..Len(m) |-> m[i].val]

\* `let highestScore = 0.60` (value * ScoreScale)
MinMatchScore == 60 * SimScale

\* one iteration of googleRestaurants.forEach; i is the position of g
seedGoogle(mergedMap, g, i) ==
  mapSet(mergedMap, listingKey(g),
         enhanceRestaurantData(g, "google", "Google Places", g.id, Undefined, <<i>>, <<>>))

RECURSIVE scanBestMatchAnyEntry(_, _, _, _, _)
RECURSIVE scanBestMatch(_, _, _, _, _)
\* the match search without `if (gData.yelpId) return`
scanBestMatchAnyEntry(mergedMap, y, i, highestScore, best) ==
  IF i > Len(mergedMap) THEN <<highestScore, best>>
  ELSE LET score == matchScore(mergedMap[i].val, y)
       IN  IF score > highestScore
           THEN scanBestMatchAnyEntry(mergedMap, y, i + 1, score, i)
           ELSE scanBestMatchAnyEntry(mergedMap, y, i + 1, highestScore, best)

\* mergedMap.forEach of the match search, from entry i on: the pair
\* <<highestScore, position of bestMatchKey>> (position 0 is null)
scanBestMatch(mergedMap, y, i, highestScore, best) ==
  IF i > Len(mergedMap) THEN <<highestScore, best>>
  ELSE IF mergedMap[i].val.yelpId /= Undefined
       THEN scanBestMatch(mergedMap, y, i + 1, highestScore, best)
       ELSE LET score == matchScore(mergedMap[i].val, y)
            IN  IF score > highestScore
                THEN scanBestMatch(mergedMap, y, i + 1, score, i)
                ELSE scanBestMatch(mergedMap, y, i + 1, highestScore, best)

\* position of the entry a Yelp record is attached to, 0 when it has no
\* match (`if (bestMatchKey)` is also false for the empty key)
bestMatchIndex(mergedMap, y) ==
  LET best == scanBestMatch(mergedMap, y, 1, MinMatchScore, 0)[2]
  IN  IF best > 0 /\ mergedMap[best].key /= "" THEN best ELSE 0

\* the matched branch: the fields written into gData; j is the position of y
attachYelp(gData, y, j) ==
  [gData EXCEPT !.yelpId = y.id,
                !.yelpRating = y.rating,
                !.yelpReviewCount = y.reviewCount,
                !.source = gData.source \o " + Yelp",
                !.crossPlatformVerified = TRUE,
                !.platformConsistency = calculatePlatformConsistency(gData, y),
                !.priceLevel = IF gData.priceLevel = Undefined /\ y.priceLevel /= Undefined
                               THEN y.priceLevel ELSE gData.priceLevel,
                !.cuisine = IF gData.cuisine = "Restaurant" /\ y.cuisine /= "Restaurant"
                            THEN y.cuisine ELSE gData.cuisine,
                !.srcB = Append(gData.srcB, j)]

\* one iteration of yelpRestaurants.forEach; j is the position of y
mergeYelp(mergedMap, y, j) ==
  LET best == bestMatchIndex(mergedMap, y)
      key == listingKey(y)
  IN  IF best > 0
      THEN [mergedMap EXCEPT ![best].val = attachYelp(mergedMap[best].val, y, j)]
      ELSE IF ~mapHas(mergedMap, key)
           THEN mapSet(mergedMap, key,
                       enhanceRestaurantData(y, "yelp", "Yelp", Undefined, y.id, <<>>, <<j>>))
           ELSE mergedMap

RECURSIVE seedAll(_, _, _)
seedAll(mergedMap, googleList, i) ==
  IF i > Len(googleList) THEN mergedMap
  ELSE seedAll(seedGoogle(mergedMap, googleList[i], i), googleList, i + 1)

RECURSIVE mergeAll(_, _, _)
mergeAll(mergedMap, yelpList, j) ==
  IF j > Len(yelpList) THEN mergedMap
  ELSE mergeAll(mergeYelp(mergedMap, yelpList[j], j), yelpList, j + 1)

\* the function as a whole: Array.from(merged.values())
intelligentMergeRestaurants(googleList, yelpList) ==
  mapValues(mergeAll(seedAll(<<>>, googleList, 1), yelpList, 1))

(***************************************************************************)
(* The result cache: a JavaScript Map from key to {data, timestamp},       *)
(* modelled as a function whose domain is the set of keys present.         *)
(***************************************************************************)
CACHE_DURATION == 10 * 60 * 1000

\* getCachedData with an entry of age CACHE_DURATION still returned
getCachedDataThroughExpiry(c, key, time) ==
  IF key \in DOMAIN c /\ time - c[key].timestamp <= CACHE_DURATION
  THEN <<c[key].data>>
  ELSE <<>>

\* the value getCachedData returns: <<>> for null, <<data>> for a hit
getCachedData(c, key, time) ==
  IF key \in DOMAIN c /\ time - c[key].timestamp < CACHE_DURATION
  THEN <<c[key].data>>
  ELSE <<>>

\* a lookup that removes every expired entry, not only the one looked up
cacheAfterGetSweeping(c, key, time) ==
  IF key \in DOMAIN c /\ time - c[key].timestamp < CACHE_DURATION
  THEN c
  ELSE [k \in {x \in (DOMAIN c) \ {key} : time - c[x].timestamp < CACHE_DURATION} |-> c[k]]

\* the Map after getCachedData: cache.delete(key) unless it returned a hit
cacheAfterGet(c, key, time) ==
  IF key \in DOMAIN c /\ time - c[key].timestamp < CACHE_DURATION
  THEN c
  ELSE [k \in (DOMAIN c) \ {key} |-> c[k]]

\* a write that updates the data of an existing entry in place and leaves
\* its timestamp
setCachedDataInPlace(c, key, data, time) ==
  [k \in (DOMAIN c) \cup {key} |->
     IF k = key
     THEN [data |-> data, timestamp |-> IF key \in DOMAIN c THEN c[key].timestamp ELSE time]
     ELSE c[k]]

\* the Map after setCachedData(key, data) at Date.now() = time
setCachedData(c, key, data, time) ==
  [k \in (DOMAIN c) \cup {key} |->
     IF k = key THEN [data |-> data, timestamp |-> time] ELSE c[k]]

(***************************************************************************)
(* /api/search-restaurants: request parameters, validation, cache key and  *)
(* filters.  A parameter the request lacks is Undefined.                   *)
(***************************************************************************)
SearchParams(query, location, priceRange, minRating, cuisine, sortBy, userLat, userLng) ==
  [query |-> query, location |-> location, priceRange |-> priceRange,
   minRating |-> minRating, cuisine |-> cuisine, sortBy |-> sortBy,
   userLat |-> userLat, userLng |-> userLng]

\* the destructuring defaults `location = 'Boston,MA'` and `sortBy = 'smart'`
withDefaults(q) ==
  [q EXCEPT !.location = IF q.location = Undefined THEN "Boston,MA" ELSE q.location,
            !.sortBy = IF q.sortBy = Undefined THEN "smart" ELSE q.sortBy]

\* TRUE when validateSearchParams returns, FALSE when it throws
validateSearchParams(query, location) ==
  /\ query /= Undefined /\ Len(trim(query)) >= 2
  /\ location /= Undefined /\ Len(trim(location)) >= 3

orElse(v, d) == IF v /= Undefined THEN v ELSE d

\* the template string of the cache key
searchCacheKey(p) ==
  "search-" \o p.query \o "-" \o p.location \o "-" \o orElse(p.priceRange, "all")
    \o "-" \o orElse(p.minRating, "all") \o "-" \o p.sortBy
    \o "-" \o orElse(p.userLat, "na") \o "-" \o orElse(p.userLng, "na")

DigitValue(c) == IndexOfChar(DigitChars, c, 1) - 1

RECURSIVE parseDigits(_, _)
\* value of the decimal digits s, after the value acc of the digits before
parseDigits(s, acc) ==
  IF Len(s) = 0 THEN acc
  ELSE parseDigits(SubSeq(s, 2, Len(s)), 10 * acc + DigitValue(Char(s, 1)))

\* parseFloat of a decimal numeral with at most one fraction digit, in tenths
parseFloat(s) ==
  LET parts == split(s, ".")
  IN  10 * parseDigits(parts[1], 0)
        + (IF Len(parts) > 1 /\ Len(parts[2]) > 0 THEN DigitValue(Char(parts[2], 1)) ELSE 0)

\* the predicate of restaurants.filter in applyEnhancedFilters
passesEnhancedFilters(restaurant, filters) ==
  /\ filters.priceRange /= Undefined =>
       /\ restaurant.priceLevel /= Undefined
       /\ SeqIncludes(split(filters.priceRange, ","), restaurant.priceLevel)
  /\ filters.minRating /= Undefined =>
       /\ restaurant.rating /= 0
       /\ restaurant.rating >= parseFloat(filters.minRating)
  /\ filters.cuisine /= Undefined =>
       LET cuisineLower == toLowerCase(filters.cuisine)
       IN  \/ includes(toLowerCase(restaurant.cuisine), cuisineLower)
           \/ includes(toLowerCase(restaurant.name), cuisineLower)
           \/ includes(toLowerCase(restaurant.cuisineType), cuisineLower)
  /\ restaurant.permanentlyClosedFactor /= 0
  /\ restaurant.businessStatus /= Undefined => restaurant.businessStatus = "OPERATIONAL"

applyEnhancedFilters(restaurants, filters) ==
  SelectSeq(restaurants, LAMBDA restaurant : passesEnhancedFilters(restaurant, filters))

(***************************************************************************)
(* calculateIntelligentScores.  A factor score is an integer number of     *)
(* millionths (FactorScale), rounded down; a weight is in hundredths; the  *)
(* intelligentScore is in thousandths, as toFixed(3) leaves it.            *)
(***************************************************************************)
FactorScale == 1000000

\* SCORING_WEIGHTS, in hundredths, in property order
ScoringFactors ==
  <<"rating", "reviewCount", "recency", "consistency", "priceValue", "distance", "uniqueness">>

SCORING_WEIGHTS ==
  [rating |-> 25, reviewCount |-> 20, recency |-> 15, consistency |-> 15,
   priceValue |-> 10, distance |-> 10, uniqueness |-> 5]

Clamp01(score) == Max(0, Min(FactorScale, score))

\* the rating score without Math.min and Math.max
calculateEnhancedRatingScoreUnclamped(restaurant) ==
  IF restaurant.rating = 0 THEN FactorScale \div 2
  ELSE LET score == (restaurant.rating - 10) * (FactorScale \div 40)
           verified == IF restaurant.crossPlatformVerified THEN (score * 11) \div 10 ELSE score
       IN  IF "Chain Restaurant" \in restaurant.specialFeatures
           THEN (verified * 9) \div 10 ELSE verified

calculateEnhancedRatingScore(restaurant) ==
  IF restaurant.rating = 0 THEN FactorScale \div 2
  ELSE LET score == (restaurant.rating - 10) * (FactorScale \div 40)
           verified == IF restaurant.crossPlatformVerified
                       THEN Min(FactorScale, (score * 11) \div 10) ELSE score
           chain == IF "Chain Restaurant" \in restaurant.specialFeatures
                    THEN (verified * 9) \div 10 ELSE verified
       IN  Clamp01(chain)

\* fixed-point binary logarithm to base 10: LogBits fraction bits, computed
\* by repeated squaring of a mantissa kept in units of 1 / LogMantissa
LogBits == 10
LogMantissa == 4096

RECURSIVE log10Digits(_)
\* the integer part of log10(x), x >= 1
log10Digits(x) == IF x < 10 THEN 0 ELSE 1 + log10Digits(x \div 10)

RECURSIVE pow10(_)
pow10(k) == IF k = 0 THEN 1 ELSE 10 * pow10(k - 1)

RECURSIVE pow2(_)
pow2(k) == IF k = 0 THEN 1 ELSE 2 * pow2(k - 1)

RECURSIVE log10Fraction(_, _)
\* the first `bits` fraction bits of log10(y / LogMantissa), 1 <= y / LogMantissa < 10
log10Fraction(y, bits) ==
  IF bits = 0 THEN 0
  ELSE LET square == (y * y) \div LogMantissa
       IN  IF square >= 10 * LogMantissa
           THEN pow2(bits - 1) + log10Fraction(square \div 10, bits - 1)
           ELSE log10Fraction(square, bits - 1)

\* Math.log10(x) in units of 1 / 2^LogBits, x >= 1
log10(x) ==
  LET k == log10Digits(x)
  IN  k * pow2(LogBits) + log10Fraction((x * LogMantissa) \div pow10(k), LogBits)

calculateEnhancedVolumeScore(restaurant) ==
  LET totalReviews == restaurant.totalRatings + restaurant.yelpReviewCount
  IN  IF totalReviews = 0 THEN FactorScale \div 10
      ELSE LET log == log10(totalReviews + 1)
           IN  IF log >= 3 * pow2(LogBits) THEN FactorScale
               ELSE (log * (FactorScale \div 64)) \div (3 * (pow2(LogBits) \div 64))

calculateEnhancedRecencyScore(restaurant) ==
  Min(FactorScale,
      6 * (FactorScale \div 10)
        + (IF restaurant.businessStatus = "OPERATIONAL" THEN 2 * (FactorScale \div 10) ELSE 0))

\* (rating / priceLevelNum - 0.25) / 4.75 = (4 rating - priceLevelNum) / (19 priceLevelNum)
calculateEnhancedPriceValueScore(restaurant) ==
  LET priceLevelNum == IF restaurant.priceLevel /= Undefined THEN Len(restaurant.priceLevel) ELSE 2
      rating == IF restaurant.rating /= 0 THEN restaurant.rating ELSE 30
      num == 4 * rating - 10 * priceLevelNum
      den == 190 * priceLevelNum
      reviewCount == restaurant.totalRatings + restaurant.yelpReviewCount
      factor == IF reviewCount < 10 THEN 8 ELSE 10
  IN  IF num <= 0 THEN 0
      ELSE Clamp01(((FactorScale \div 10) * factor * num) \div den)

\* userLocation is <<>> when userLat or userLng is missing, else the user's
\* position in metres
calculateDistanceScore(restaurant, userLocation) ==
  IF userLocation = NoLocation \/ restaurant.location = NoLocation
  THEN 3 * (FactorScale \div 10)
  ELSE LET distance == calculateDistance(userLocation, restaurant.location)
       IN  IF distance <= 1000 THEN FactorScale
           ELSE IF distance <= 3000 THEN 8 * (FactorScale \div 10)
           ELSE IF distance <= 5000 THEN 6 * (FactorScale \div 10)
           ELSE IF distance <= 10000 THEN 3 * (FactorScale \div 10)
           ELSE FactorScale \div 10

calculateEnhancedUniquenessScore(restaurant, query) ==
  LET features == restaurant.specialFeatures
      hundredths(present, value) == IF present THEN value ELSE 0
      queryLower == toLowerCase(query)
      score ==
        30 + hundredths("Hidden Gem" \in features, 30)
           + hundredths("Chef-Driven / Fine Dining" \in features, 20)
           + hundredths("Craft Cocktails" \in features
                          \/ "Extensive Wine List" \in features, 15)
           + hundredths("Authentic Cuisine" \in features
                          \/ includes(restaurant.cuisineType, "Regional"), 10)
           - hundredths("Chain Restaurant" \in features, 30)
           + hundredths(query /= Undefined
                          /\ includes(toLowerCase(restaurant.name), queryLower), 10)
           + hundredths(query /= Undefined
                          /\ (\/ includes(toLowerCase(restaurant.cuisine), queryLower)
                              \/ includes(toLowerCase(restaurant.cuisineType), queryLower)), 5)
  IN  Clamp01(score * (FactorScale \div 100))

\* the `scores` object of one restaurant; context is {userLocation, query}
scoreBreakdown(restaurant, context) ==
  [rating |-> calculateEnhancedRatingScore(restaurant),
   reviewCount |-> calculateEnhancedVolumeScore(restaurant),
   recency |-> calculateEnhancedRecencyScore(restaurant),
   consistency |-> IF restaurant.platformConsistency /= 0
                   THEN restaurant.platformConsistency * (FactorScale \div 100)
                   ELSE 8 * (FactorScale \div 10),
   priceValue |-> calculateEnhancedPriceValueScore(restaurant),
   distance |-> calculateDistanceScore(restaurant, context.userLocation),
   uniqueness |-> calculateEnhancedUniquenessScore(restaurant, context.query)]

RECURSIVE weightedTotal(_, _)
\* the reduce over Object.keys(SCORING_WEIGHTS) from factor i on, in units of
\* 1 / (100 FactorScale)
weightedTotal(scores, i) ==
  IF i > Len(ScoringFactors) THEN 0
  ELSE scores[ScoringFactors[i]] * SCORING_WEIGHTS[ScoringFactors[i]]
         + weightedTotal(scores, i + 1)

\* parseFloat(intelligentScore.toFixed(3)), in thousandths
intelligentScoreOf(scores) == RoundDiv(weightedTotal(scores, 1), FactorScale \div 10)

calculateIntelligentScores(restaurants, context) ==
  [i \in 1..Len(restaurants) |->
     LET scores == scoreBreakdown(restaurants[i], context)
     IN  [restaurant |-> restaurants[i],
          intelligentScore |-> intelligentScoreOf(scores),
          scoreBreakdown |-> scores]]

\* insertion of x before the first entry of equal score
insertByScoreBeforeEqual(sorted, x) ==
  LET k == Cardinality({i \in 1..Len(sorted) : sorted[i].intelligentScore > x.intelligentScore})
  IN  SubSeq(sorted, 1, k) \o <<x>> \o SubSeq(sorted, k + 1, Len(sorted))

\* insertion of x into a list sorted by the comparator
\* (a, b) => (b.intelligentScore || 0) - (a.intelligentScore || 0): after
\* every entry the comparator does not put behind x
insertByScore(sorted, x) ==
  LET k == Cardinality({i \in 1..Len(sorted) : sorted[i].intelligentScore >= x.intelligentScore})
  IN  SubSeq(sorted, 1, k) \o <<x>> \o SubSeq(sorted, k + 1, Len(sorted))

RECURSIVE sortByScore(_, _)
\* Array.prototype.sort (a stable sort) of the first n entries
sortByScore(restaurants, n) ==
  IF n = 0 THEN <<>>
  ELSE insertByScore(sortByScore(restaurants, n - 1), restaurants[n])

\* .slice(0, 12)
MaxReturned == 12

slice(list, count) == SubSeq(list, 1, Min(count, Len(list)))

\* the user's position: userLat and userLng must both be present; userLat
\* then gives the position in metres
userLocation(p) ==
  IF p.userLat = Undefined \/ p.userLng = Undefined THEN NoLocation
  ELSE <<parseDigits(p.userLat, 0)>>

searchFilters(p) == [priceRange |-> p.priceRange, minRating |-> p.minRating, cuisine |-> p.cuisine]

searchContext(p) == [userLocation |-> userLocation(p), query |-> p.query]

(***************************************************************************)
(* Review authenticity: FAKE_REVIEW_PATTERNS and calculateAuthenticityScore. *)
(* Scores are in hundredths, the running score in thousandths.  A pattern  *)
(* is the sequence of its alternatives; each pattern object carries the    *)
(* lastIndex of a regular expression with the g flag.                      *)
(***************************************************************************)
FAKE_REVIEW_PATTERNS ==
  [suspiciousPatterns |->
     << <<"amazing", "excellent", "perfect", "fantastic">>,
        <<"worst", "terrible", "awful", "horrible">>,
        <<"highly recommend", "must try", "definitely worth">> >>,
   spamIndicators |->
     << <<"same day", "today", "yesterday">>,
        <<"first time", "never been", "will come back">> >>,
   genericPhrases |->
     << <<"good food", "nice place", "great service">>,
        <<"bad experience", "poor service", "not recommended">> >>]

PatternGroups == DOMAIN FAKE_REVIEW_PATTERNS

\* lastIndex of every pattern object when the module has been loaded
FreshPatterns == [group \in PatternGroups |-> [k \in DOMAIN FAKE_REVIEW_PATTERNS[group] |-> 0]]

RECURSIVE alternativeAt(_, _, _, _)
\* length of the first alternative, from the k-th on, that matches text at
\* position q (counted from 1); 0 when none does
alternativeAt(alternatives, text, q, k) ==
  IF k > Len(alternatives) THEN 0
  ELSE IF /\ q + Len(alternatives[k]) - 1 <= Len(text)
          /\ SubSeq(text, q, q + Len(alternatives[k]) - 1) = alternatives[k]
       THEN Len(alternatives[k])
       ELSE alternativeAt(alternatives, text, q, k + 1)

\* the matches of a pattern in text, from left to right: per match the
\* position of its first character (counted from 1)
matchPositions(alternatives, text) ==
  SelectSeq([q \in 1..Len(text) |-> q], LAMBDA q : alternativeAt(alternatives, text, q, 1) > 0)

RECURSIVE firstMatchAt(_, _, _)
\* the first of the matches, from the n-th on, that starts at index `from`
\* (counted from 0) or later;
\* 0 when there is none
firstMatchAt(matches, from, n) ==
  IF n > Len(matches) THEN 0
  ELSE IF matches[n] - 1 >= from THEN n
  ELSE firstMatchAt(matches, from, n + 1)

\* RegExp.prototype.test of a pattern with the g flag: the search starts at
\* the pattern's lastIndex `from`; a match leaves lastIndex just past it, a
\* failure resets it to 0
regexTest(alternatives, text, matches, from) ==
  LET n == IF from > Len(text) THEN 0 ELSE firstMatchAt(matches, from, 1)
  IN  IF n = 0 THEN [matched |-> FALSE, lastIndex |-> 0]
      ELSE [matched |-> TRUE,
            lastIndex |-> matches[n] - 1 + alternativeAt(alternatives, text, matches[n], 1)]

\* review.user_review_count === undefined
NoReviewCount == <<>>

RECURSIVE repeat(_, _)
repeat(s, n) == IF n = 0 THEN "" ELSE s \o repeat(s, n - 1)

Review(text, count) == [text |-> text, user_review_count |-> count]

\* a review of three exclamation marks (its rating is not read)
ExclamationReview == Review("!!!", NoReviewCount)

\* a detailed review of 600 characters in mixed case, without any of the
\* phrases of FAKE_REVIEW_PATTERNS
DetailedReview ==
  Review(repeat("We shared the Carnitas plate and the Mole; both came hot and well roasted. ", 8),
         NoReviewCount)

\* reviews as the review endpoints pass them to calculateAuthenticityScore
ReviewUniverse ==
  { Review("Amazing food, excellent tacos and a perfect salsa. Highly recommend!", NoReviewCount),
    Review("WORST amazing today!! First time here, good food, nice place, must try!!", <<1>>),
    Review("The carnitas plate was tender and the staff kept our water filled.", <<60>>),
    Review("Went today", NoReviewCount),
    Review(repeat("The carnitas plate was tender and the staff kept our water filled. ", 8),
           NoReviewCount),
    Review(Undefined, <<5>>),
    ExclamationReview,
    DetailedReview }

\* (review.text || '').toLowerCase()
reviewText(review) == toLowerCase(orElse(review.text, ""))

\* text.match(/[A-Z]/g)?.length || 0, for the character class `chars`
countChars(text, chars) ==
  Cardinality({i \in 1..Len(text) : IndexOfChar(chars, Char(text, i), 1) > 0})

\* text.split('!').length - 1
countExclamations(text) == Cardinality({i \in 1..Len(text) : Char(text, i) = "!"})

PatternIds == {id \in PatternGroups \X (1..3) : id[2] \in DOMAIN FAKE_REVIEW_PATTERNS[id[1]]}

\* what calculateAuthenticityScore reads from the text of a review, computed
\* once per review: the lower-cased text, the number of capitals in it and
\* the number of exclamation marks
textSignalsTable ==
  Tabulated([review \in ReviewUniverse |->
               LET text == reviewText(review)
               IN  [text |-> text,
                    capitals |-> countChars(text, UpperChars),
                    exclamations |-> countExclamations(text)]])

\* the matches of every pattern in every review, computed once
matchTable ==
  Tabulated([x \in ReviewUniverse \X PatternIds |->
               matchPositions(FAKE_REVIEW_PATTERNS[x[2][1]][x[2][2]], textSignalsTable[x[1]].text)])

\* the tests of one call, per pattern
patternTests(review, patterns) ==
  [group \in PatternGroups |->
     [k \in DOMAIN FAKE_REVIEW_PATTERNS[group] |->
        regexTest(FAKE_REVIEW_PATTERNS[group][k], textSignalsTable[review].text,
                  matchTable[<<review, <<group, k>>>>], patterns[group][k])]]

\* lastIndex of every pattern object after calculateAuthenticityScore(review)
patternsAfter(review, patterns) ==
  LET tests == patternTests(review, patterns)
  IN  [group \in PatternGroups |->
        [k \in DOMAIN FAKE_REVIEW_PATTERNS[group] |-> tests[group][k].lastIndex]]

matchCount(tests) == Cardinality({k \in DOMAIN tests : tests[k].matched})

\* `score` just before the return, in thousandths
authenticityPenalties(review, patterns) ==
  LET signals == textSignalsTable[review]
      length == Len(signals.text)
      tests == patternTests(review, patterns)
      suspiciousMatches == matchCount(tests.suspiciousPatterns)
      spamMatches == matchCount(tests.spamIndicators)
      genericMatches == matchCount(tests.genericPhrases)
      count == review.user_review_count
  IN  1000
      - (IF suspiciousMatches > 1 THEN 300 * (suspiciousMatches - 1) ELSE 0)
      - 200 * spamMatches
      - (IF genericMatches > 0 THEN 150 * genericMatches ELSE 0)
      - (IF length < 25 THEN 300 ELSE IF length < 50 THEN 100 ELSE 0)
      + (IF length > 500 THEN 50 ELSE 0)
      - (IF count = NoReviewCount THEN 0
         ELSE IF count[1] < 3 THEN 200 ELSE IF count[1] < 10 THEN 100 ELSE 0)
      + (IF count # NoReviewCount /\ count[1] > 50 THEN 100 ELSE 0)
      - (IF length > 0 /\ 2 * signals.capitals > length THEN 200 ELSE 0)
      - (IF signals.exclamations > 3 THEN 100 ELSE 0)

\* parseFloat(score.toFixed(2)) without the clamp
calculateAuthenticityScoreUnclamped(review, patterns) ==
  RoundDiv(authenticityPenalties(review, patterns), 10)

\* Math.max(0.1, Math.min(1.0, parseFloat(score.toFixed(2))))
calculateAuthenticityScore(review, patterns) ==
  Max(10, Min(100, RoundDiv(authenticityPenalties(review, patterns), 10)))

(***************************************************************************)
(* State.                                                                  *)
(***************************************************************************)
VARIABLES
  googleRestaurants,  \* argument of intelligentMergeRestaurants
  yelpRestaurants,    \* argument of intelligentMergeRestaurants
  merged,             \* the Map of intelligentMergeRestaurants
  gi,                 \* position of the next record of googleRestaurants.forEach
  yi,                 \* position of the next record of yelpRestaurants.forEach
  mergePc,            \* "run" while the loops run, "done" after the return
  mergeResult,        \* the returned array
  cache,              \* the Map `cache`
  now,                \* Date.now(), in milliseconds
  ticks,              \* number of clock advances so far
  handlers,           \* the executions of the /api/search-restaurants handler
  lastResponse,       \* <<>> or <<r>>, r the response sent last
  lastWrite,          \* history: per key, the last setCachedData call, their number
                      \* and the parameters of the request that made it
  searchPc,           \* position of the search pipeline of one request
  search,             \* the request and the lists the pipeline has computed
  fakeReviewPatterns, \* lastIndex of every pattern object of FAKE_REVIEW_PATTERNS
  scoredReviews,      \* history: the calls of calculateAuthenticityScore so far
  analysisPc,         \* position of one /api/restaurant-analysis request
  collected,          \* successfulReviews: the review lists per platform
  analysis,           \* the analysis computed for the request
  baseline,           \* <<>> or <<b>>, b the reviews and the analysis of the first request
  comparePc,          \* "names" or "addresses" before a comparison, "done" after it
  compareArgs,        \* the strings to compare
  compareResult,      \* the similarities computed
  executions          \* per endpoint, the handler execution in progress

mergeVars == <<googleRestaurants, yelpRestaurants, merged, gi, yi, mergePc, mergeResult>>

cacheVars == <<cache, now, ticks, handlers, lastResponse, lastWrite>>

searchVars == <<searchPc, search>>

reviewVars == <<fakeReviewPatterns, scoredReviews>>

analysisVars == <<analysisPc, collected, analysis, baseline>>

compareVars == <<comparePc, compareArgs, compareResult>>

vars == <<mergeVars, cacheVars, searchVars, reviewVars, analysisVars, compareVars, executions>>

\* `analysis` while no analysis has been computed
NoAnalysis == <<>>

(***************************************************************************)
(* Requests, sources and handler executions of /api/search-restaurants.    *)
(***************************************************************************)
MaxHandlers == 2
MaxTicks == 2

Handlers == 1..MaxHandlers

EmptyMap == [k \in {} |-> <<>>]

SearchRequests ==
  { SearchParams("taco", Undefined, Undefined, Undefined, Undefined, Undefined, Undefined, Undefined),
    SearchParams("taco", Undefined, Undefined, Undefined, "mexican", Undefined, Undefined, Undefined),
    SearchParams("taco", Undefined, "$$", Undefined, Undefined, Undefined, Undefined, Undefined),
    SearchParams("t", Undefined, Undefined, Undefined, Undefined, Undefined, Undefined, Undefined) }

\* what a source returns when its fetch succeeds; a failed or timed-out fetch
\* gives the empty list (searchGooglePlaces and searchYelpBusinesses catch)
GoogleCatalog ==
  << GoogleListing("g1", "Taco Bar", "1 Elm St", <<0>>,   45, "$$",  "Mexican",    120),
     GoogleListing("g4", "Tico's",   "1 Elm St", <<0>>,   47, "$$$", "Tapas",      15),
     GoogleListing("g3", "Taco Bar", "2 Elm St", <<100>>, 38, "$",   "Restaurant", 30) >>

YelpCatalog ==
  << YelpListing("y1", "Taco Bar", "1 Elm St", <<0>>,   40, "$$", "Mexican", 200),
     YelpListing("y2", "Taco Bar", "3 Elm St", <<100>>, 35, "$",  "Tacos",   12) >>

\* how the internal request of a source search ends: with a response, or
\* with an error status or the 10 s timeout
FetchOutcomes == {"fulfilled", "failed"}

\* searchGooglePlaces: the catch block returns an empty list
searchGooglePlaces(outcome) == IF outcome = "fulfilled" THEN GoogleCatalog ELSE <<>>

\* searchYelpBusinesses: the catch block returns an empty list
searchYelpBusinesses(outcome) == IF outcome = "fulfilled" THEN YelpCatalog ELSE <<>>

\* a handler that awaits both searches jointly: one failure loses both lists
joinedListings(googleOutcome, yelpOutcome) ==
  IF googleOutcome = "fulfilled" /\ yelpOutcome = "fulfilled"
  THEN [google |-> GoogleCatalog, yelp |-> YelpCatalog]
  ELSE [google |-> <<>>, yelp |-> <<>>]

\* googleRestaurants and yelpRestaurants after Promise.allSettled
settledListings(googleOutcome, yelpOutcome) ==
  [google |-> searchGooglePlaces(googleOutcome), yelp |-> searchYelpBusinesses(yelpOutcome)]

\* Tables of the request computations over SearchRequests and the source
\* outcomes, computed once
requestTable ==
  Tabulated([q \in SearchRequests |->
               LET p == withDefaults(q)
               IN  [params |-> p,
                    valid |-> validateSearchParams(p.query, p.location),
                    cacheKey |-> searchCacheKey(p)]])

\* writesSeen, lookupAt and fetched are history fields: the number of writes
\* made to the key before the lookup, the time of the lookup, and how the two
\* source searches ended
IdleHandler ==
  [pc |-> "idle",
   params |-> SearchParams(Undefined, Undefined, Undefined, Undefined, Undefined, Undefined,
                           Undefined, Undefined),
   cacheKey |-> Undefined,
   writesSeen |-> 0,
   lookupAt |-> 0,
   fetched |-> [google |-> Undefined, yelp |-> Undefined],
   draft |-> <<>>]

DoneHandler == [IdleHandler EXCEPT !.pc = "done"]

\* number of setCachedData calls made for a key
writeCount(writes, key) == IF key \in DOMAIN writes THEN writes[key].count ELSE 0

\* the result object of the handler before the summary is added
\* the response body, from the lists the handler has computed
searchResponse(googleData, yelpData, mergedRestaurants, filteredRestaurants, sortedRestaurants) ==
  [restaurants |-> slice(sortedRestaurants, MaxReturned),
   totalFound |-> Len(mergedRestaurants),
   filteredCount |-> Len(filteredRestaurants),
   sourceCounts |-> [google |-> Len(googleData), yelp |-> Len(yelpData)],
   aiSummary |-> Undefined]

\* scoredRestaurants.sort(...)
sortScored(scoredRestaurants) == sortByScore(scoredRestaurants, Len(scoredRestaurants))

\* the handler from the filtered list on: score, sort, respond
searchFiltered(p, googleData, yelpData, mergedRestaurants, filteredRestaurants) ==
  searchResponse(googleData, yelpData, mergedRestaurants, filteredRestaurants,
                 sortScored(calculateIntelligentScores(filteredRestaurants, searchContext(p))))

\* the handler from the merged list on: filter, score, sort, respond
searchMerged(p, googleData, yelpData, mergedRestaurants) ==
  searchFiltered(p, googleData, yelpData, mergedRestaurants,
                 applyEnhancedFilters(mergedRestaurants, searchFilters(p)))

\* the handler after the fetch: merge, filter, score, sort, respond
searchResult(p, googleData, yelpData) ==
  searchMerged(p, googleData, yelpData, intelligentMergeRestaurants(googleData, yelpData))

(***************************************************************************)
(* intelligentMergeRestaurants, one loop iteration per step.               *)
(***************************************************************************)
\* the search pipeline when it is not running
NoSearch ==
  [params |-> SearchParams(Undefined, Undefined, Undefined, Undefined, Undefined, Undefined,
                           Undefined, Undefined),
   googleData |-> <<>>, yelpData |-> <<>>,
   mergedRestaurants |-> <<>>, filteredRestaurants |-> <<>>, scoredRestaurants |-> <<>>,
   sortedRestaurants |-> <<>>, result |-> <<>>]

MergeInit ==
  /\ googleRestaurants \in BoundedSeq(GoogleUniverse, MaxGoogle)
  /\ yelpRestaurants \in BoundedSeq(YelpUniverse, MaxYelp)
  /\ merged = <<>>
  /\ gi = 1
  /\ yi = 1
  /\ mergePc = "run"
  /\ mergeResult = <<>>
  /\ cache = EmptyMap
  /\ now = 0
  /\ ticks = 0
  /\ handlers = [h \in Handlers |-> IdleHandler]
  /\ lastResponse = <<>>
  /\ lastWrite = EmptyMap
  /\ searchPc = "off"
  /\ search = NoSearch
  /\ fakeReviewPatterns = FreshPatterns
  /\ scoredReviews = <<>>
  /\ analysisPc = "off"
  /\ collected = <<>>
  /\ analysis = NoAnalysis
  /\ baseline = <<>>
  /\ comparePc = "off"
  /\ compareArgs = <<>>
  /\ compareResult = <<>>
  /\ executions = <<>>

MergeSeedStep ==
  /\ mergePc = "run"
  /\ gi <= Len(googleRestaurants)
  /\ merged' = seedGoogle(merged, googleRestaurants[gi], gi)
  /\ gi' = gi + 1
  /\ UNCHANGED <<googleRestaurants, yelpRestaurants, yi, mergePc, mergeResult, cacheVars, searchVars, reviewVars, analysisVars, compareVars, executions>>

MergeYelpStep ==
  /\ mergePc = "run"
  /\ gi > Len(googleRestaurants)
  /\ yi <= Len(yelpRestaurants)
  /\ merged' = mergeYelp(merged, yelpRestaurants[yi], yi)
  /\ yi' = yi + 1
  /\ UNCHANGED <<googleRestaurants, yelpRestaurants, gi, mergePc, mergeResult, cacheVars, searchVars, reviewVars, analysisVars, compareVars, executions>>

MergeReturn ==
  /\ mergePc = "run"
  /\ gi > Len(googleRestaurants)
  /\ yi > Len(yelpRestaurants)
  /\ mergeResult' = mapValues(merged)
  /\ mergePc' = "done"
  /\ UNCHANGED <<googleRestaurants, yelpRestaurants, merged, gi, yi, cacheVars, searchVars, reviewVars, analysisVars, compareVars, executions>>

MergeNext == MergeSeedStep \/ MergeYelpStep \/ MergeReturn

MergeSpec == MergeInit /\ [][MergeNext]_vars

(***************************************************************************)
(* Properties of the merge engine.                                         *)
(***************************************************************************)
\* entries that hold a Google listing with no Yelp record attached
UnmatchedSeeded == {i \in 1..Len(merged) : merged[i].val.srcA /= <<>> /\ merged[i].val.srcB = <<>>}

\* the step attaches the Yelp record at position yi to entry i
AttachesTo(i) ==
  /\ mergePc = "run"
  /\ yi' = yi + 1
  /\ i \in 1..Len(merged)
  /\ merged'[i].val.srcB /= merged[i].val.srcB

RECURSIVE SeqSum(_)
SeqSum(q) == IF Len(q) = 0 THEN 0 ELSE Head(q) + SeqSum(Tail(q))

\* number of Yelp records attached to a seeded entity
MatchedCount(entities) ==
  SeqSum([i \in 1..Len(entities) |->
            IF entities[i].srcA /= <<>> THEN Len(entities[i].srcB) ELSE 0])

VerifiedCount(entities) ==
  Cardinality({i \in 1..Len(entities) : entities[i].crossPlatformVerified})

\* the realized pairings <<Google id, Yelp id>> of a merge result
Pairings(entities) ==
  {<<entities[i].googleId, entities[i].yelpId>> :
     i \in {k \in 1..Len(entities) : entities[k].crossPlatformVerified}}

IndexPermutations(n) == {f \in [1..n -> 1..n] : \A i, k \in 1..n : f[i] = f[k] => i = k}

\* C1: every Yelp record that is matched is attached to the entity with the
\* maximum match score over all seeded Google records that have no Yelp
\* record attached at that moment (each record of googleRestaurants seeds
\* one entity), and among several of maximum score to the earliest seeded
\* (two records equal in every field count as the same candidate).
C1_BestOfAllSeeded ==
  [][\A i \in 1..Len(merged) :
       AttachesTo(i) =>
         LET y == yelpRestaurants[yi]
             best == matchScore(merged[i].val, y)
             attachedA == {merged[k].val.srcA[1] :
                             k \in {n \in 1..Len(merged) : merged[n].val.srcA /= <<>>
                                                             /\ merged[n].val.srcB /= <<>>}}
         IN  /\ i \in UnmatchedSeeded
             /\ \A a \in 1..Len(googleRestaurants) :
                  a \notin attachedA =>
                    /\ matchScore(googleRestaurants[a], y) <= best
                    /\ matchScore(googleRestaurants[a], y) = best =>
                         \/ merged[i].val.srcA[1] <= a
                         \/ googleRestaurants[a] = googleRestaurants[merged[i].val.srcA[1]]
    ]_vars

\* C2: the realized pairings do not depend on the order of yelpRestaurants.
C2_PairingsOrderIndependent ==
  mergePc = "done" =>
    \A f \in IndexPermutations(Len(yelpRestaurants)) :
      Pairings(intelligentMergeRestaurants(googleRestaurants,
                                           [j \in 1..Len(yelpRestaurants) |-> yelpRestaurants[f[j]]]))
        = Pairings(mergeResult)

\* C3: after a merge every entity carries at most one Google and at most one
\* Yelp listing, no Yelp record is on two entities, and crossPlatformVerified
\* is true exactly for the entities that carry both.
C3_TwoSourceModel ==
  mergePc = "done" =>
    /\ \A i \in 1..Len(mergeResult) :
         LET e == mergeResult[i]
         IN  /\ Len(e.srcA) <= 1
             /\ Len(e.srcB) <= 1
             /\ Len(e.srcA) + Len(e.srcB) >= 1
             /\ (e.googleId /= Undefined) <=> (e.srcA /= <<>>)
             /\ (e.yelpId /= Undefined) <=> (e.srcB /= <<>>)
             /\ e.crossPlatformVerified <=> (e.srcA /= <<>> /\ e.srcB /= <<>>)
    /\ \A i, k \in 1..Len(mergeResult) :
         \A j \in 1..Len(yelpRestaurants) :
           (SeqIncludes(mergeResult[i].srcB, j) /\ SeqIncludes(mergeResult[k].srcB, j)) => i = k

\* a merge in which a second Yelp record also scored above the threshold
\* against an entity that already carried one
C3_Witness ==
  /\ mergePc = "done"
  /\ \E i \in 1..Len(mergeResult) :
       /\ mergeResult[i].crossPlatformVerified
       /\ \E j \in 1..Len(yelpRestaurants) :
            /\ ~SeqIncludes(mergeResult[i].srcB, j)
            /\ matchScore(mergeResult[i], yelpRestaurants[j]) > MinMatchScore
            /\ \E k \in 1..Len(mergeResult) : mergeResult[k].srcB = <<j>> /\ mergeResult[k].srcA = <<>>

\* C4: with one side empty the merge returns one standalone entity per
\* record of the other side, none of them verified.
C4_OneSidedMerge ==
  (mergePc = "done" /\ (googleRestaurants = <<>> \/ yelpRestaurants = <<>>)) =>
    /\ Len(mergeResult) = Len(googleRestaurants) + Len(yelpRestaurants)
    /\ \A i \in 1..Len(mergeResult) : ~mergeResult[i].crossPlatformVerified

\* C5: every Yelp record that is not matched is in the result as its own
\* standalone, unverified entity.
C5_UnmatchedYelpKept ==
  mergePc = "done" =>
    \A j \in 1..Len(yelpRestaurants) :
      \E i \in 1..Len(mergeResult) :
        /\ mergeResult[i].srcB = <<j>>
        /\ mergeResult[i].srcA = <<>> => ~mergeResult[i].crossPlatformVerified

\* `bestScore = 0.65` of the specification (value * ScoreScale)
SpecMatchThreshold == 65 * SimScale

\* C6: a Yelp record is attached only to an entity whose match score
\* against it is strictly above 0.65.
C6_AboveThreshold ==
  [][\A i \in 1..Len(merged) :
       AttachesTo(i) => calculateMatchScore(merged[i].val, yelpRestaurants[yi]) > SpecMatchThreshold
    ]_vars

\* C7: the result has len(A) + len(B) - matched entities, and as many
\* verified entities as matched Yelp records.
C7_EntityCount ==
  mergePc = "done" =>
    /\ Len(mergeResult) = Len(googleRestaurants) + Len(yelpRestaurants) - MatchedCount(mergeResult)
    /\ VerifiedCount(mergeResult) = MatchedCount(mergeResult)

(***************************************************************************)
(* The /api/search-restaurants handler.  It runs to completion between its *)
(* two await points: Promise.allSettled of the source searches and the     *)
(* summary call.  An execution is one step per such segment.               *)
(***************************************************************************)
CacheInit ==
  /\ googleRestaurants = <<>>
  /\ yelpRestaurants = <<>>
  /\ merged = <<>>
  /\ gi = 1
  /\ yi = 1
  /\ mergePc = "idle"
  /\ mergeResult = <<>>
  /\ cache = EmptyMap
  /\ now = 0
  /\ ticks = 0
  /\ handlers = [h \in Handlers |-> IdleHandler]
  /\ lastResponse = <<>>
  /\ lastWrite = EmptyMap
  /\ searchPc = "off"
  /\ search = NoSearch
  /\ fakeReviewPatterns = FreshPatterns
  /\ scoredReviews = <<>>
  /\ analysisPc = "off"
  /\ collected = <<>>
  /\ analysis = NoAnalysis
  /\ baseline = <<>>
  /\ comparePc = "off"
  /\ compareArgs = <<>>
  /\ compareResult = <<>>
  /\ executions = <<>>

searchResultTable ==
  Tabulated([p \in {requestTable[q].params : q \in SearchRequests},
             googleData \in {GoogleCatalog, <<>>}, yelpData \in {YelpCatalog, <<>>} |->
               searchResult(p, googleData, yelpData)])

\* handler executions are started in the order of their numbers
MayStart(h) ==
  /\ handlers[h].pc = "idle"
  /\ h > 1 => handlers[h - 1].pc /= "idle"

Response(h, p, key, status, body, fromCache, seen, count) ==
  <<[handler |-> h, params |-> p, cacheKey |-> key, status |-> status, body |-> body,
     fromCache |-> fromCache, writesSeen |-> seen, writeCount |-> count]>>

\* validateSearchParams throws: the catch block answers 500
SearchRejected(h) ==
  \E q \in SearchRequests :
    LET p == requestTable[q].params
    IN  /\ MayStart(h)
        /\ ~requestTable[q].valid
        /\ handlers' = [handlers EXCEPT ![h] = DoneHandler]
        /\ lastResponse' = Response(h, p, Undefined, 500, <<>>, FALSE, 0, 0)
        /\ UNCHANGED <<cache, now, ticks, lastWrite, mergeVars, searchVars, reviewVars, analysisVars, compareVars, executions>>

\* the cache lookup finds a live entry: res.json(cached)
SearchCacheHit(h) ==
  \E q \in SearchRequests :
    LET p == requestTable[q].params
        key == requestTable[q].cacheKey
        cached == getCachedData(cache, key, now)
    IN  /\ MayStart(h)
        /\ requestTable[q].valid
        /\ cached /= <<>>
        /\ cache' = cacheAfterGet(cache, key, now)
        /\ handlers' = [handlers EXCEPT ![h] = DoneHandler]
        /\ lastResponse' = Response(h, p, key, 200, cached, TRUE,
                                    writeCount(lastWrite, key), writeCount(lastWrite, key))
        /\ UNCHANGED <<now, ticks, lastWrite, mergeVars, searchVars, reviewVars, analysisVars, compareVars, executions>>

\* the cache lookup returns null: both source searches are started
SearchCacheMiss(h) ==
  \E q \in SearchRequests :
    LET p == requestTable[q].params
        key == requestTable[q].cacheKey
    IN  /\ MayStart(h)
        /\ requestTable[q].valid
        /\ getCachedData(cache, key, now) = <<>>
        /\ cache' = cacheAfterGet(cache, key, now)
        /\ handlers' = [handlers EXCEPT ![h] =
             [IdleHandler EXCEPT !.pc = "fetching", !.params = p, !.cacheKey = key,
                                 !.writesSeen = writeCount(lastWrite, key),
                                 !.lookupAt = now]]
        /\ UNCHANGED <<now, ticks, lastResponse, lastWrite, mergeVars, searchVars, reviewVars, analysisVars, compareVars, executions>>

\* Promise.allSettled resolves: merge, filter and score, then the summary
\* call is started
SearchFetched(h) ==
  \E googleOutcome \in FetchOutcomes, yelpOutcome \in FetchOutcomes :
    /\ handlers[h].pc = "fetching"
    /\ handlers' = [handlers EXCEPT
         ![h].pc = "summarizing",
         ![h].fetched = [google |-> googleOutcome, yelp |-> yelpOutcome],
         ![h].draft = <<searchResultTable[handlers[h].params,
                                          settledListings(googleOutcome, yelpOutcome).google,
                                          settledListings(googleOutcome, yelpOutcome).yelp]>>]
    /\ UNCHANGED <<cache, now, ticks, lastResponse, lastWrite, mergeVars, searchVars, reviewVars, analysisVars, compareVars, executions>>

\* the summary call returns a text or null: setCachedData and res.json(result)
SearchSummarized(h) ==
  \E aiSummaryText \in {Undefined, "summary"} :
    LET result == [handlers[h].draft[1] EXCEPT !.aiSummary = aiSummaryText]
        key == handlers[h].cacheKey
    IN  /\ handlers[h].pc = "summarizing"
        /\ cache' = setCachedData(cache, key, result, now)
        /\ lastWrite' = [k \in (DOMAIN lastWrite) \cup {key} |->
                           IF k = key
                           THEN [data |-> result, timestamp |-> now,
                                 count |-> writeCount(lastWrite, key) + 1,
                                 params |-> handlers[h].params]
                           ELSE lastWrite[k]]
        /\ handlers' = [handlers EXCEPT ![h] = DoneHandler]
        /\ lastResponse' = Response(h, handlers[h].params, key, 200, <<result>>, FALSE,
                                    handlers[h].writesSeen, writeCount(lastWrite, key) + 1)
        /\ UNCHANGED <<now, ticks, mergeVars, searchVars, reviewVars, analysisVars, compareVars, executions>>

\* time passes between two segments
Tick ==
  \E d \in {1, CACHE_DURATION - 1} :
    /\ ticks < MaxTicks
    /\ now' = now + d
    /\ ticks' = ticks + 1
    /\ UNCHANGED <<cache, handlers, lastResponse, lastWrite, mergeVars, searchVars, reviewVars, analysisVars, compareVars, executions>>

CacheNext ==
  \/ \E h \in Handlers : SearchRejected(h)
  \/ \E h \in Handlers : SearchCacheHit(h)
  \/ \E h \in Handlers : SearchCacheMiss(h)
  \/ \E h \in Handlers : SearchFetched(h)
  \/ \E h \in Handlers : SearchSummarized(h)
  \/ Tick

CacheSpec == CacheInit /\ [][CacheNext]_vars

(***************************************************************************)
(* Properties of the result cache.                                         *)
(***************************************************************************)
\* the step is one in which handler h calls getCachedData
LooksUp(h) ==
  /\ handlers[h].pc = "idle"
  /\ \/ handlers'[h].pc = "fetching"
     \/ /\ handlers'[h].pc = "done"
        /\ lastResponse' /= <<>>
        /\ lastResponse'[1].handler = h
        /\ lastResponse'[1].fromCache

\* the key of that call and the value it returned
LookupKey(h) ==
  IF handlers'[h].pc = "fetching" THEN handlers'[h].cacheKey ELSE lastResponse'[1].cacheKey

LookupReturned(h) ==
  IF handlers'[h].pc = "fetching" THEN <<>> ELSE lastResponse'[1].body

\* C8: a lookup of a key whose last write stored d at time t returns d if
\* and only if now - t < CACHE_DURATION; otherwise it returns null and the
\* key is absent from the cache after the lookup.
C8_LookupWithinDuration ==
  [][\A h \in Handlers :
       (LooksUp(h) /\ LookupKey(h) \in DOMAIN lastWrite) =>
         LET key == LookupKey(h)
         IN  IF now - lastWrite[key].timestamp < CACHE_DURATION
             THEN LookupReturned(h) = <<lastWrite[key].data>> /\ cache' = cache
             ELSE LookupReturned(h) = <<>> /\ key \notin DOMAIN cache'
    ]_vars

\* a lookup made exactly CACHE_DURATION after the write returned null and
\* removed the entry
C8_Witness ==
  \E h \in Handlers :
    /\ handlers[h].pc = "fetching"
    /\ handlers[h].cacheKey \in DOMAIN lastWrite
    /\ handlers[h].writesSeen = lastWrite[handlers[h].cacheKey].count
    /\ handlers[h].lookupAt - lastWrite[handlers[h].cacheKey].timestamp = CACHE_DURATION
    /\ handlers[h].cacheKey \notin DOMAIN cache

\* C9: a request answered from the cache receives a result computed for
\* its own parameters (query, location, price filter, minimum rating,
\* cuisine filter, sort mode, user coordinates).
C9_KeyCoversParameters ==
  (lastResponse /= <<>> /\ lastResponse[1].fromCache) =>
    /\ lastWrite[lastResponse[1].cacheKey].params = lastResponse[1].params
    /\ \E googleData \in {GoogleCatalog, <<>>}, yelpData \in {YelpCatalog, <<>>} :
         [lastResponse[1].body[1] EXCEPT !.aiSummary = Undefined]
           = searchResultTable[lastResponse[1].params, googleData, yelpData]

\* C10: every entry of the cache is the complete {data, timestamp} pair of
\* the last setCachedData call for its key; a handler whose lookup missed
\* writes its own result, and that write replaces the entry as a whole and
\* touches no other key.
C10_WholeEntryWrites ==
  /\ [](\A k \in DOMAIN cache :
          /\ k \in DOMAIN lastWrite
          /\ cache[k] = [data |-> lastWrite[k].data, timestamp |-> lastWrite[k].timestamp])
  /\ [][\A h \in Handlers :
          (handlers[h].pc = "summarizing" /\ handlers'[h].pc = "done") =>
            LET key == handlers[h].cacheKey
            IN  /\ lastResponse'[1].handler = h
                /\ ~lastResponse'[1].fromCache
                /\ cache'[key] = [data |-> lastResponse'[1].body[1], timestamp |-> now]
                /\ lastWrite'[key].count = writeCount(lastWrite, key) + 1
                /\ \A k \in (DOMAIN cache') \ {key} : k \in DOMAIN cache /\ cache'[k] = cache[k]
     ]_vars

\* two handlers missed on the same key, both recomputed, and the second
\* write, made at a later time, replaced the entry of the first
C10_Witness ==
  /\ lastResponse /= <<>>
  /\ ~lastResponse[1].fromCache
  /\ lastResponse[1].status = 200
  /\ lastResponse[1].writesSeen = 0
  /\ lastResponse[1].writeCount = 2
  /\ cache[lastResponse[1].cacheKey] = [data |-> lastResponse[1].body[1], timestamp |-> now]
  /\ now > 0

(***************************************************************************)
(* The search pipeline of one /api/search-restaurants request whose cache  *)
(* lookup missed: merge, filter, score, sort, slice (server.js 627-668),   *)
(* one step per call.                                                      *)
(***************************************************************************)
PipelineRequests ==
  { SearchParams("taco", "Boston,MA", Undefined, Undefined, Undefined, "smart", Undefined, Undefined),
    SearchParams("taco", "Boston,MA", "$$,$$$", Undefined, Undefined, "smart", Undefined, Undefined),
    SearchParams("taco", "Boston,MA", Undefined, "4.2", Undefined, "smart", Undefined, Undefined),
    SearchParams("taco", "Boston,MA", Undefined, Undefined, "mexican", "smart", Undefined, Undefined),
    SearchParams("casa", "Boston,MA", Undefined, Undefined, Undefined, "smart", "0", "0"),
    SearchParams("mezcal", "Boston,MA", Undefined, Undefined, "bar", "rating", "3000", "0") }

SearchInit ==
  /\ googleRestaurants = <<>>
  /\ yelpRestaurants = <<>>
  /\ merged = <<>>
  /\ gi = 1
  /\ yi = 1
  /\ mergePc = "idle"
  /\ mergeResult = <<>>
  /\ cache = EmptyMap
  /\ now = 0
  /\ ticks = 0
  /\ handlers = [h \in Handlers |-> IdleHandler]
  /\ lastResponse = <<>>
  /\ lastWrite = EmptyMap
  /\ fakeReviewPatterns = FreshPatterns
  /\ scoredReviews = <<>>
  /\ analysisPc = "off"
  /\ collected = <<>>
  /\ analysis = NoAnalysis
  /\ baseline = <<>>
  /\ comparePc = "off"
  /\ compareArgs = <<>>
  /\ compareResult = <<>>
  /\ executions = <<>>
  /\ searchPc = "fetched"
  /\ \E p \in PipelineRequests :
       \E googleData \in BoundedSeq(SearchGoogleUniverse, MaxGoogle) :
         \E yelpData \in BoundedSeq(SearchYelpUniverse, MaxYelp) :
           search = [NoSearch EXCEPT !.params = p, !.googleData = googleData,
                                     !.yelpData = yelpData]

PipelineMerge ==
  /\ searchPc = "fetched"
  /\ search' = [search EXCEPT !.mergedRestaurants =
                                intelligentMergeRestaurants(search.googleData, search.yelpData)]
  /\ searchPc' = "merged"
  /\ UNCHANGED <<mergeVars, cacheVars, reviewVars, analysisVars, compareVars, executions>>

PipelineFilter ==
  /\ searchPc = "merged"
  /\ search' = [search EXCEPT !.filteredRestaurants =
                                applyEnhancedFilters(search.mergedRestaurants,
                                                     searchFilters(search.params))]
  /\ searchPc' = "filtered"
  /\ UNCHANGED <<mergeVars, cacheVars, reviewVars, analysisVars, compareVars, executions>>

PipelineScore ==
  /\ searchPc = "filtered"
  /\ search' = [search EXCEPT !.scoredRestaurants =
                                calculateIntelligentScores(search.filteredRestaurants,
                                                           searchContext(search.params))]
  /\ searchPc' = "scored"
  /\ UNCHANGED <<mergeVars, cacheVars, reviewVars, analysisVars, compareVars, executions>>

PipelineSort ==
  /\ searchPc = "scored"
  /\ search' = [search EXCEPT !.sortedRestaurants =
                                sortByScore(search.scoredRestaurants,
                                            Len(search.scoredRestaurants))]
  /\ searchPc' = "sorted"
  /\ UNCHANGED <<mergeVars, cacheVars, reviewVars, analysisVars, compareVars, executions>>

PipelineRespond ==
  /\ searchPc = "sorted"
  /\ search' = [search EXCEPT !.result =
                   <<[restaurants |-> slice(search.sortedRestaurants, MaxReturned),
                      totalFound |-> Len(search.mergedRestaurants),
                      filteredCount |-> Len(search.filteredRestaurants),
                      sourceCounts |-> [google |-> Len(search.googleData),
                                        yelp |-> Len(search.yelpData)],
                      aiSummary |-> Undefined]>>]
  /\ searchPc' = "done"
  /\ UNCHANGED <<mergeVars, cacheVars, reviewVars, analysisVars, compareVars, executions>>

SearchNext ==
  \/ PipelineMerge
  \/ PipelineFilter
  \/ PipelineScore
  \/ PipelineSort
  \/ PipelineRespond

SearchSpec == SearchInit /\ [][SearchNext]_vars

(***************************************************************************)
(* Properties of scoring, ordering and filtering.                          *)
(***************************************************************************)
RECURSIVE weightSum(_)
weightSum(i) ==
  IF i > Len(ScoringFactors) THEN 0 ELSE SCORING_WEIGHTS[ScoringFactors[i]] + weightSum(i + 1)

\* C11: each of the seven factors of every scored entity lies in [0, 1], the
\* weights of SCORING_WEIGHTS sum to 1.0 and the intelligentScore lies in
\* [0, 1].
C11_ScoresInUnitInterval ==
  /\ weightSum(1) = 100
  /\ \A i \in 1..Len(search.scoredRestaurants) :
       LET scored == search.scoredRestaurants[i]
       IN  /\ \A k \in 1..Len(ScoringFactors) :
                /\ scored.scoreBreakdown[ScoringFactors[k]] >= 0
                /\ scored.scoreBreakdown[ScoringFactors[k]] <= FactorScale
           /\ scored.intelligentScore >= 0
           /\ scored.intelligentScore <= 1000

\* a verified entity whose rating score 1.1 (rating - 1) / 4 exceeded 1 and
\* was cut to 1, scored next to an entity without any review
C11_Witness ==
  /\ searchPc = "scored"
  /\ \E i \in 1..Len(search.scoredRestaurants) :
       LET scored == search.scoredRestaurants[i]
       IN  /\ scored.restaurant.crossPlatformVerified
           /\ (scored.restaurant.rating - 10) * 11 > 400
           /\ scored.scoreBreakdown.rating = FactorScale
  /\ \E i \in 1..Len(search.scoredRestaurants) :
       search.scoredRestaurants[i].scoreBreakdown.reviewCount = FactorScale \div 10

\* position of the entity with the given id in a list, 0 when absent
positionOf(list, id) ==
  LET at == {i \in 1..Len(list) : list[i].id = id}
  IN  IF at = {} THEN 0 ELSE CHOOSE i \in at : TRUE

\* C12: the returned restaurants are in order of non-increasing
\* intelligentScore, and entities of equal intelligentScore are in the
\* order of the merge output.
C12_SortedStable ==
  searchPc = "done" =>
    LET returned == search.result[1].restaurants
    IN  /\ Len(returned) = Min(MaxReturned, Len(search.scoredRestaurants))
        /\ \A i, j \in 1..Len(returned) :
             i < j =>
               /\ returned[i].intelligentScore >= returned[j].intelligentScore
               /\ returned[i].intelligentScore = returned[j].intelligentScore =>
                    positionOf(search.mergedRestaurants, returned[i].restaurant.id)
                      < positionOf(search.mergedRestaurants, returned[j].restaurant.id)
        /\ \A i \in 1..Len(search.scoredRestaurants) :
             \E j \in 1..Len(returned) : returned[j] = search.scoredRestaurants[i]

\* a result with two entities of equal score behind an entity of higher
\* score that came later in the merge output
C12_Witness ==
  /\ searchPc = "done"
  /\ LET returned == search.result[1].restaurants
     IN  \E i, j, k \in 1..Len(returned) :
           /\ i < j /\ j < k
           /\ returned[i].intelligentScore > returned[j].intelligentScore
           /\ returned[j].intelligentScore = returned[k].intelligentScore
           /\ positionOf(search.mergedRestaurants, returned[i].restaurant.id)
                > positionOf(search.mergedRestaurants, returned[j].restaurant.id)

\* the entity is operational and passes the filters of the request
Admissible(restaurant, p) ==
  /\ restaurant.permanentlyClosedFactor /= 0
  /\ restaurant.businessStatus \in {Undefined, "OPERATIONAL"}
  /\ passesEnhancedFilters(restaurant, searchFilters(p))

\* C13: every entity that is scored, and every entity a search returns, is
\* operational and passes the price, minimum-rating and cuisine filters of
\* the request.
C13_OnlyAdmissibleReturned ==
  /\ \A i \in 1..Len(search.scoredRestaurants) :
       Admissible(search.scoredRestaurants[i].restaurant, search.params)
  /\ \A i \in 1..Len(search.sortedRestaurants) :
       Admissible(search.sortedRestaurants[i].restaurant, search.params)
  /\ (lastResponse /= <<>> /\ lastResponse[1].status = 200) =>
       \A i \in 1..Len(lastResponse[1].body[1].restaurants) :
         Admissible(lastResponse[1].body[1].restaurants[i].restaurant, lastResponse[1].params)

(***************************************************************************)
(* The calls of calculateAuthenticityScore made by one server process.     *)
(***************************************************************************)
MaxScored == 3

ReviewInit ==
  /\ googleRestaurants = <<>>
  /\ yelpRestaurants = <<>>
  /\ merged = <<>>
  /\ gi = 1
  /\ yi = 1
  /\ mergePc = "idle"
  /\ mergeResult = <<>>
  /\ cache = EmptyMap
  /\ now = 0
  /\ ticks = 0
  /\ handlers = [h \in Handlers |-> IdleHandler]
  /\ lastResponse = <<>>
  /\ lastWrite = EmptyMap
  /\ searchPc = "off"
  /\ search = NoSearch
  /\ fakeReviewPatterns = FreshPatterns
  /\ scoredReviews = <<>>
  /\ analysisPc = "off"
  /\ collected = <<>>
  /\ analysis = NoAnalysis
  /\ baseline = <<>>
  /\ comparePc = "off"
  /\ compareArgs = <<>>
  /\ compareResult = <<>>
  /\ executions = <<>>

\* one call calculateAuthenticityScore(review); the history keeps the review,
\* the pattern objects' lastIndex at the call and the returned score
ScoreReview ==
  /\ Len(scoredReviews) < MaxScored
  /\ \E review \in ReviewUniverse :
       /\ scoredReviews' = Append(scoredReviews,
            [review |-> review, before |-> fakeReviewPatterns,
             authenticity_score |-> calculateAuthenticityScore(review, fakeReviewPatterns)])
       /\ fakeReviewPatterns' = patternsAfter(review, fakeReviewPatterns)
  /\ UNCHANGED <<mergeVars, cacheVars, searchVars, analysisVars, compareVars, executions>>

ReviewNext == ScoreReview

ReviewSpec == ReviewInit /\ [][ReviewNext]_vars

\* C14: every score calculateAuthenticityScore returns lies in [0.1, 1.0]
\* (10..100 hundredths), whatever the review's text, length, punctuation and
\* reviewer review count; it is never zero.
C14_AuthenticityInRange ==
  \A i \in 1..Len(scoredReviews) : scoredReviews[i].authenticity_score \in 10..100

\* a call whose score before the clamp was below 0.1 returned 0.1, and a call
\* whose score before the clamp was above 1.0 returned 1.0
C14_Witness ==
  \E i, j \in 1..Len(scoredReviews) :
    /\ calculateAuthenticityScoreUnclamped(scoredReviews[i].review, scoredReviews[i].before) < 10
    /\ scoredReviews[i].authenticity_score = 10
    /\ calculateAuthenticityScoreUnclamped(scoredReviews[j].review, scoredReviews[j].before) > 100
    /\ scoredReviews[j].authenticity_score = 100

\* C15: calculateAuthenticityScore is deterministic and history-independent:
\* two calls with the same review return the same score, whatever was scored
\* before or between them.
C15_SameReviewSameScore ==
  \A i, j \in 1..Len(scoredReviews) :
    scoredReviews[i].review = scoredReviews[j].review
      => scoredReviews[i].authenticity_score = scoredReviews[j].authenticity_score

(***************************************************************************)
(* Review analysis: performAdvancedAnalysisWithBalancing and the functions *)
(* it calls.  A review is a record; rating 0, time 0, authenticity_score 0 *)
(* and weight 0 stand for a field that is missing (null or undefined).     *)
(* Ratings are whole stars, authenticity scores and weights hundredths,    *)
(* unifiedScore tenths, sortScore units of 1/500.                          *)
(***************************************************************************)
NoRating == 0

AnalysisReview(rating, text, author, time, authenticity_score, weight) ==
  [rating |-> rating, text |-> text, author |-> author, time |-> time,
   authenticity_score |-> authenticity_score, weight |-> weight]

\* a review whose text field is missing
AnalysisReviewWithoutText(rating, author, time, authenticity_score, weight) ==
  [rating |-> rating, author |-> author, time |-> time,
   authenticity_score |-> authenticity_score, weight |-> weight]

\* review.text is not undefined
hasText(review) == "text" \in DOMAIN review

\* reviewsList.map(r => ({...r, platformSource: platform}))
withPlatformSource(reviewsList, platform) ==
  [i \in 1..Len(reviewsList) |->
     IF hasText(reviewsList[i])
     THEN [rating |-> reviewsList[i].rating, text |-> reviewsList[i].text,
           author |-> reviewsList[i].author, time |-> reviewsList[i].time,
           authenticity_score |-> reviewsList[i].authenticity_score,
           weight |-> reviewsList[i].weight, platformSource |-> platform]
     ELSE [rating |-> reviewsList[i].rating,
           author |-> reviewsList[i].author, time |-> reviewsList[i].time,
           authenticity_score |-> reviewsList[i].authenticity_score,
           weight |-> reviewsList[i].weight, platformSource |-> platform]]

\* platformReviews after reviewsData.forEach
platformReviewsOf(reviewsData) ==
  [platform \in {"google", "yelp"} |-> withPlatformSource(reviewsData[platform], platform)]

\* platformCount after reviewsData.forEach
platformCountOf(reviewsData) ==
  Cardinality({platform \in {"google", "yelp"} : Len(reviewsData[platform]) > 0})

\* Object.values(platformReviews).flat()
flatReviews(platformReviews) == platformReviews.google \o platformReviews.yelp

\* review.weight || 1.0
weightOf(review) == IF review.weight = 0 THEN 100 ELSE review.weight

rated(reviews) == SelectSeq(reviews, LAMBDA review : review.rating # NoRating)

\* reduce((sum, r) => sum + (r.weight || 1.0), 0)
weightSumOf(reviews) == SeqSum([i \in 1..Len(reviews) |-> weightOf(reviews[i])])

\* the sum of review.rating * (review.weight || 1.0)
weightedRatingSumOf(reviews) ==
  SeqSum([i \in 1..Len(reviews) |-> reviews[i].rating * weightOf(reviews[i])])

\* reduce((sum, r) => sum + r.rating, 0)
ratingSumOf(reviews) == SeqSum([i \in 1..Len(reviews) |-> reviews[i].rating])

\* parseFloat(unifiedScore.toFixed(1)), in tenths: the weighted ratings of the
\* rated reviews over the weights of all reviews
unifiedScoreOf(allReviewsCombined) ==
  LET ratedReviews == rated(allReviewsCombined)
      weightedRatingSum == weightedRatingSumOf(ratedReviews)
      weights == weightSumOf(allReviewsCombined)
  IN  RoundDiv(10 * weightedRatingSum, weights)

\* Math.min(100, Math.round(volumeScore + diversityScore))
confidenceOf(platformCount, totalRatingsCount) ==
  LET volumeScore == Min(50, totalRatingsCount)
      diversityScore == platformCount * 25
  IN  Min(100, volumeScore + diversityScore)

\* r.authenticity_score || 0.6
authenticityOr60(review) ==
  IF review.authenticity_score = 0 THEN 60 ELSE review.authenticity_score

\* reduce((s, r) => s + (r.authenticity_score || 0.6), 0)
authenticitySumOf(reviews) == SeqSum([i \in 1..Len(reviews) |-> authenticityOr60(reviews[i])])

\* determineDataQuality with the points of one and of two platforms exchanged
determineDataQualitySingleFavoured(platformCount, totalReviewsCount, allReviewsList) ==
  LET platformPoints == IF platformCount >= 2 THEN 15
                        ELSE IF platformCount = 1 THEN 35 ELSE 0
      countPoints == IF totalReviewsCount >= 100 THEN 35
                     ELSE IF totalReviewsCount >= 50 THEN 25
                     ELSE IF totalReviewsCount >= 10 THEN 15 ELSE 0
      n == Len(allReviewsList)
      authSum == IF n > 0 THEN authenticitySumOf(allReviewsList) ELSE 60
      scale == IF n > 0 THEN n ELSE 1
      atLeast(t) == (platformPoints + countPoints) * 100 * scale + 30 * authSum >= t * 100 * scale
  IN  IF atLeast(75) THEN "high"
      ELSE IF atLeast(50) THEN "medium"
      ELSE IF atLeast(25) THEN "low"
      ELSE "very low"

\* determineDataQuality: score >= t, for score = points + avgAuth * 30, is
\* decided on whole numbers after multiplying by 100 * allReviewsList.length
determineDataQuality(platformCount, totalReviewsCount, allReviewsList) ==
  LET platformPoints == IF platformCount >= 2 THEN 35
                        ELSE IF platformCount = 1 THEN 15 ELSE 0
      countPoints == IF totalReviewsCount >= 100 THEN 35
                     ELSE IF totalReviewsCount >= 50 THEN 25
                     ELSE IF totalReviewsCount >= 10 THEN 15 ELSE 0
      n == Len(allReviewsList)
      authSum == IF n > 0 THEN authenticitySumOf(allReviewsList) ELSE 60
      scale == IF n > 0 THEN n ELSE 1
      atLeast(t) == (platformPoints + countPoints) * 100 * scale + 30 * authSum >= t * 100 * scale
  IN  IF atLeast(75) THEN "high"
      ELSE IF atLeast(50) THEN "medium"
      ELSE IF atLeast(25) THEN "low"
      ELSE "very low"

\* analyzeEnhancedSentiment: reviews without a rating are skipped by the
\* counting loop, total is reviews.length
analyzeEnhancedSentiment(reviews) ==
  LET count(Class(_)) == Len(SelectSeq(reviews, LAMBDA review : review.rating # NoRating /\ Class(review.rating)))
      positive == count(LAMBDA rating : rating >= 4)
      neutral == count(LAMBDA rating : rating < 4 /\ rating >= 3)
      negative == count(LAMBDA rating : rating < 3)
      total == Len(reviews)
      breakdown == [positive |-> positive, neutral |-> neutral, negative |-> negative]
  IN  IF total = 0
      THEN [positive |-> 0, neutral |-> 100, negative |-> 0,
            breakdown |-> [positive |-> 0, neutral |-> 0, negative |-> 0]]
      ELSE [positive |-> RoundDiv(positive * 100, total),
            neutral |-> RoundDiv(neutral * 100, total),
            negative |-> RoundDiv(negative * 100, total),
            breakdown |-> breakdown]

RECURSIVE insertByTime(_, _)
insertByTime(sorted, review) ==
  IF sorted = <<>> THEN <<review>>
  ELSE IF sorted[Len(sorted)].time <= review.time THEN Append(sorted, review)
  ELSE Append(insertByTime(SubSeq(sorted, 1, Len(sorted) - 1), review), sorted[Len(sorted)])

RECURSIVE sortByTime(_, _)
\* .sort((a, b) => a.time - b.time) of the first n entries
sortByTime(reviews, n) ==
  IF n = 0 THEN <<>> ELSE insertByTime(sortByTime(reviews, n - 1), reviews[n])

calculateAdvancedTrend(reviews) ==
  IF Len(reviews) < 10 THEN "stable"
  ELSE LET usable == SelectSeq(reviews, LAMBDA r : r.time # 0 /\ r.rating # NoRating)
           sortedByTime == sortByTime(usable, Len(usable))
           L == Len(sortedByTime)
           firstThird == SubSeq(sortedByTime, 1, L \div 3)
           lastThird == SubSeq(sortedByTime, (2 * L + 2) \div 3 + 1, L)
           \* diff = avgNew - avgOld, multiplied by both lengths
           diff == ratingSumOf(lastThird) * Len(firstThird)
                     - ratingSumOf(firstThird) * Len(lastThird)
           quarter == Len(firstThird) * Len(lastThird)
       IN  IF L < 10 THEN "stable"
           ELSE IF Len(firstThird) = 0 \/ Len(lastThird) = 0 THEN "stable"
           ELSE IF 4 * diff > quarter THEN "improving"
           ELSE IF 4 * diff < 0 - quarter THEN "declining"
           ELSE "stable"

MAX_TOP_REVIEWS == 5

\* (review.rating || 0) * 2 + (review.authenticity_score || 0.5) + (review.text?.length || 0) / 500
sortScore(review) ==
  review.rating * 1000
    + 5 * (IF review.authenticity_score = 0 THEN 50 ELSE review.authenticity_score)
    + (IF hasText(review) THEN Len(review.text) ELSE 0)

\* allAvailableReviews before the sort
availableReviews(platformReviewsMap) ==
  LET reviews == flatReviews(platformReviewsMap)
  IN  [i \in 1..Len(reviews) |->
         [review |-> reviews[i], platform |-> reviews[i].platformSource,
          sortScore |-> sortScore(reviews[i])]]

RECURSIVE insertBySortScore(_, _)
insertBySortScore(sorted, entry) ==
  IF sorted = <<>> THEN <<entry>>
  ELSE IF sorted[Len(sorted)].sortScore >= entry.sortScore THEN Append(sorted, entry)
  ELSE Append(insertBySortScore(SubSeq(sorted, 1, Len(sorted) - 1), entry), sorted[Len(sorted)])

RECURSIVE sortBySortScore(_, _)
\* .sort((a, b) => b.sortScore - a.sortScore) of the first n entries
sortBySortScore(entries, n) ==
  IF n = 0 THEN <<>> ELSE insertBySortScore(sortBySortScore(entries, n - 1), entries[n])

\* text.substring(0, 250)
substring250(text) == SubSeq(text, 1, Min(250, Len(text)))

startsWith(s, prefix) == Len(prefix) <= Len(s) /\ SubSeq(s, 1, Len(prefix)) = prefix

\* the entry pushed to balancedReviews (its sentiment label is left out);
\* undefined + '' is the string 'undefined'
topReview(entry) ==
  [rating |-> entry.review.rating,
   text |-> IF hasText(entry.review)
            THEN substring250(entry.review.text)
                   \o (IF Len(entry.review.text) > 250 THEN "..." ELSE "")
            ELSE "undefined",
   author |-> entry.review.author,
   platform |-> entry.platform,
   authenticity_score |-> entry.review.authenticity_score]

RECURSIVE onePerPlatform(_, _, _, _)
\* the first loop: the best review of every platform not yet represented
onePerPlatform(sorted, i, balancedReviews, platformRepresentation) ==
  IF i > Len(sorted) THEN balancedReviews
  ELSE IF /\ Len(balancedReviews) < MAX_TOP_REVIEWS
          /\ sorted[i].platform \notin platformRepresentation
       THEN onePerPlatform(sorted, i + 1, Append(balancedReviews, topReview(sorted[i])),
                           platformRepresentation \cup {sorted[i].platform})
       ELSE onePerPlatform(sorted, i + 1, balancedReviews, platformRepresentation)

\* the TypeError of review.text.substring for a review without text
TypeError == [exception |-> "TypeError"]

\* createBalancedTopReviews left by the exception, no list returned
Thrown == <<TypeError>>

RECURSIVE fillRemaining(_, _, _)
\* the second loop: the best reviews overall that are not yet in the result;
\* the callback of balancedReviews.some reads review.text.substring
fillRemaining(sorted, i, balancedReviews) ==
  IF i > Len(sorted) \/ Len(balancedReviews) >= MAX_TOP_REVIEWS THEN balancedReviews
  ELSE IF Len(balancedReviews) > 0 /\ ~hasText(sorted[i].review) THEN Thrown
  ELSE LET alreadyAdded ==
             \E n \in 1..Len(balancedReviews) :
               /\ startsWith(balancedReviews[n].text, substring250(sorted[i].review.text))
               /\ balancedReviews[n].author = sorted[i].review.author
       IN  IF alreadyAdded THEN fillRemaining(sorted, i + 1, balancedReviews)
           ELSE fillRemaining(sorted, i + 1, Append(balancedReviews, topReview(sorted[i])))

\* the best reviews overall, without the loop that represents every platform
createBalancedTopReviewsBestOnly(platformReviewsMap) ==
  LET entries == availableReviews(platformReviewsMap)
      sorted == sortBySortScore(entries, Len(entries))
  IN  fillRemaining(sorted, 1, <<>>)

createBalancedTopReviews(platformReviewsMap) ==
  LET entries == availableReviews(platformReviewsMap)
      sorted == sortBySortScore(entries, Len(entries))
  IN  IF Len(entries) = 0 THEN <<>>
      ELSE fillRemaining(sorted, 1, onePerPlatform(sorted, 1, <<>>, {}))

\* a fallback result without its low-confidence markers and message
generateFallbackAnalysisUnmarked ==
  [unifiedScore |-> 0, totalReviews |-> 0, confidence |-> 0,
   sentimentAnalysis |-> [positive |-> 0, neutral |-> 100, negative |-> 0,
                          breakdown |-> [positive |-> 0, neutral |-> 0, negative |-> 0]],
   recentTrend |-> "unknown", topReviews |-> <<>>, platformsUsed |-> 0,
   dataQuality |-> "low", message |-> Undefined]

generateFallbackAnalysis ==
  [unifiedScore |-> 0, totalReviews |-> 0, confidence |-> 10,
   sentimentAnalysis |-> [positive |-> 0, neutral |-> 100, negative |-> 0,
                          breakdown |-> [positive |-> 0, neutral |-> 0, negative |-> 0]],
   recentTrend |-> "unknown", topReviews |-> <<>>, platformsUsed |-> 0,
   dataQuality |-> "very low",
   message |-> "Limited review data available. Analysis is based on estimates or defaults."]

performAdvancedAnalysisWithBalancing(reviewsData) ==
  LET platformReviews == platformReviewsOf(reviewsData)
      platformCount == platformCountOf(reviewsData)
      allReviewsCombined == flatReviews(platformReviews)
      totalRatingsCount == Len(rated(allReviewsCombined))
  IN  IF totalRatingsCount = 0 THEN generateFallbackAnalysis
      ELSE IF createBalancedTopReviews(platformReviews) = Thrown THEN TypeError
      ELSE [unifiedScore |-> unifiedScoreOf(allReviewsCombined),
            totalReviews |-> totalRatingsCount,
            confidence |-> confidenceOf(platformCount, totalRatingsCount),
            sentimentAnalysis |-> analyzeEnhancedSentiment(allReviewsCombined),
            recentTrend |-> calculateAdvancedTrend(allReviewsCombined),
            topReviews |-> createBalancedTopReviews(platformReviews),
            platformsUsed |-> platformCount,
            dataQuality |-> determineDataQuality(platformCount, totalRatingsCount,
                                                 allReviewsCombined),
            message |-> Undefined]

(***************************************************************************)
(* Requests to /api/restaurant-analysis: the analysis of the collected     *)
(* reviews, and later requests for which a platform returns fewer reviews  *)
(* or none.                                                                *)
(***************************************************************************)
MaxReviews == 2

GoogleReviewUniverse ==
  { AnalysisReview(5, "Great tacos and friendly staff", "Ann", 100, 70, 0),
    AnalysisReview(2, "Cold food", "Bob", 200, 35, 0),
    AnalysisReview(NoRating, "Lovely patio", "Cy", 0, 0, 0),
    AnalysisReviewWithoutText(4, "Gus", 120, 70, 0) }

YelpReviewUniverse ==
  { AnalysisReview(3, "Decent burritos", "Dee", 150, 35, 0),
    AnalysisReview(4, "Loved the mole, will return", "Eve", 300, 100, 150),
    AnalysisReview(NoRating, "Parking is easy", "Flo", 250, 60, 0) }

\* reviews of one platform with the given ratings and times, one per author
reviewSeries(ratings, times) ==
  [i \in 1..Len(ratings) |->
     AnalysisReview(ratings[i], "Solid neighbourhood spot with quick service",
                    "Guest " \o SubSeq("ABCDEFGHIJKLMNOP", i, i), times[i], 70, 0)]

\* twelve timestamped reviews per request: rising ratings, falling ratings,
\* rising ratings listed latest first, and a rise of exactly 0.25
SeriesInputs ==
  { [google |-> reviewSeries(<<3, 3, 3, 3, 4, 4, 4, 4, 4, 5, 4, 5>>,
                             <<1, 2, 3, 4, 5, 6, 7, 8, 9, 10, 11, 12>>),
     yelp |-> <<AnalysisReview(1, "Overpriced and slow", "Zed", 0, 35, 0)>>],
    [google |-> reviewSeries(<<4, 5, 4, 5, 4, 4, 4, 4, 3, 3, 3, 3>>,
                             <<1, 2, 3, 4, 5, 6, 7, 8, 9, 10, 11, 12>>),
     yelp |-> <<>>],
    [google |-> reviewSeries(<<5, 4, 5, 4, 4, 4, 4, 4, 3, 3, 3, 3>>,
                             <<12, 11, 10, 9, 8, 7, 6, 5, 4, 3, 2, 1>>),
     yelp |-> <<>>],
    [google |-> <<>>,
     yelp |-> reviewSeries(<<3, 3, 3, 3, 4, 4, 4, 4, 3, 3, 3, 4>>,
                           <<1, 2, 3, 4, 5, 6, 7, 8, 9, 10, 11, 12>>)] }

AnalysisInputs ==
  {[google |-> g, yelp |-> y] : g \in BoundedSeq(GoogleReviewUniverse, MaxReviews),
                                y \in BoundedSeq(YelpReviewUniverse, MaxReviews)}
    \cup SeriesInputs

removeAt(list, i) == SubSeq(list, 1, i - 1) \o SubSeq(list, i + 1, Len(list))

AnalysisInit ==
  /\ googleRestaurants = <<>>
  /\ yelpRestaurants = <<>>
  /\ merged = <<>>
  /\ gi = 1
  /\ yi = 1
  /\ mergePc = "idle"
  /\ mergeResult = <<>>
  /\ cache = EmptyMap
  /\ now = 0
  /\ ticks = 0
  /\ handlers = [h \in Handlers |-> IdleHandler]
  /\ lastResponse = <<>>
  /\ lastWrite = EmptyMap
  /\ searchPc = "off"
  /\ search = NoSearch
  /\ fakeReviewPatterns = FreshPatterns
  /\ scoredReviews = <<>>
  /\ analysisPc = "collected"
  /\ collected \in AnalysisInputs
  /\ analysis = NoAnalysis
  /\ baseline = <<>>
  /\ comparePc = "off"
  /\ compareArgs = <<>>
  /\ compareResult = <<>>
  /\ executions = <<>>

\* the handler after performAdvancedAnalysisWithBalancing(successfulReviews):
\* an exception is caught and answered with status 500
analysisPcAfter(result) == IF result = TypeError THEN "threw" ELSE "done"

analysisAfter(result) == IF result = TypeError THEN NoAnalysis ELSE result

\* the first request: performAdvancedAnalysisWithBalancing(successfulReviews)
Analyze ==
  /\ analysisPc = "collected"
  /\ analysisPc' = analysisPcAfter(performAdvancedAnalysisWithBalancing(collected))
  /\ analysis' = analysisAfter(performAdvancedAnalysisWithBalancing(collected))
  /\ baseline' = <<[collected |-> collected, analysis |-> analysis']>>
  /\ UNCHANGED <<collected, mergeVars, cacheVars, searchVars, reviewVars, compareVars, executions>>

\* a later request for which a platform returns one review fewer
DropReview ==
  /\ analysisPc = "done"
  /\ \E platform \in DOMAIN collected :
       \E i \in 1..Len(collected[platform]) :
         /\ collected' = [collected EXCEPT ![platform] = removeAt(@, i)]
         /\ analysisPc' = analysisPcAfter(performAdvancedAnalysisWithBalancing(collected'))
         /\ analysis' = analysisAfter(performAdvancedAnalysisWithBalancing(collected'))
  /\ UNCHANGED <<baseline, mergeVars, cacheVars, searchVars, reviewVars, compareVars, executions>>

\* a later request for which a platform returns no review
DropSource ==
  /\ analysisPc = "done"
  /\ \E platform \in DOMAIN collected :
       /\ Len(collected[platform]) > 0
       /\ collected' = [collected EXCEPT ![platform] = <<>>]
       /\ analysisPc' = analysisPcAfter(performAdvancedAnalysisWithBalancing(collected'))
       /\ analysis' = analysisAfter(performAdvancedAnalysisWithBalancing(collected'))
  /\ UNCHANGED <<baseline, mergeVars, cacheVars, searchVars, reviewVars, compareVars, executions>>

AnalysisNext == Analyze \/ DropReview \/ DropSource

AnalysisSpec == AnalysisInit /\ [][AnalysisNext]_vars

\* the reviews of the request, as performAdvancedAnalysisWithBalancing combines them
combinedReviews == flatReviews(platformReviewsOf(collected))

\* C16: unifiedScore is the weighted mean of the star ratings of the included
\* (rated) reviews, the sum of rating * weight over the sum of weight of the
\* same reviews, rounded to one decimal; it lies between the smallest and the
\* largest included rating.
C16_UnifiedScoreIsWeightedMean ==
  (analysisPc = "done" /\ analysis.totalReviews > 0) =>
    LET included == rated(combinedReviews)
        ratings == {included[i].rating : i \in 1..Len(included)}
    IN  /\ analysis.unifiedScore
             = RoundDiv(10 * weightedRatingSumOf(included), weightSumOf(included))
        /\ \E low, high \in ratings :
             10 * low <= analysis.unifiedScore /\ analysis.unifiedScore <= 10 * high

\* C17: for a non-empty review set, analyzeEnhancedSentiment counts every
\* review in exactly one of positive (rating >= 4), neutral (rating 3) and
\* negative (rating <= 2), and the three percentages sum to 100 up to
\* rounding (99..101).
C17_SentimentPartition ==
  (analysisPc = "done" /\ analysis.totalReviews > 0) =>
    LET sentiment == analysis.sentimentAnalysis
        counted(Class(_)) ==
          Cardinality({i \in 1..Len(combinedReviews) :
                         combinedReviews[i].rating # NoRating /\ Class(combinedReviews[i].rating)})
    IN  /\ sentiment.breakdown.positive = counted(LAMBDA rating : rating >= 4)
        /\ sentiment.breakdown.neutral = counted(LAMBDA rating : rating = 3)
        /\ sentiment.breakdown.negative = counted(LAMBDA rating : rating <= 2)
        /\ sentiment.breakdown.positive + sentiment.breakdown.neutral
             + sentiment.breakdown.negative = Len(combinedReviews)
        /\ sentiment.positive + sentiment.neutral + sentiment.negative \in 99..101

\* the trend of the claim for a list of reviews: "stable" with fewer than 10
\* reviews that carry a timestamp and a rating; otherwise by the difference
\* between the mean rating of the latest third and of the earliest third
trendByThirds(reviews) ==
  LET usable == SelectSeq(reviews, LAMBDA r : r.time # 0 /\ r.rating # NoRating)
      L == Len(usable)
      \* position of the i-th usable review in ascending order of time
      rank(i) == Cardinality({j \in 1..L : \/ usable[j].time < usable[i].time
                                           \/ usable[j].time = usable[i].time /\ j <= i})
      old == {i \in 1..L : rank(i) <= L \div 3}
      new == {i \in 1..L : rank(i) > (2 * L + 2) \div 3}
      ratingSum(S) == SeqSum([i \in 1..L |-> IF i \in S THEN usable[i].rating ELSE 0])
      \* (avgNew - avgOld) * |old| * |new|
      diff == ratingSum(new) * Cardinality(old) - ratingSum(old) * Cardinality(new)
  IN  IF L < 10 THEN "stable"
      ELSE IF 4 * diff > Cardinality(old) * Cardinality(new) THEN "improving"
      ELSE IF 4 * diff < 0 - Cardinality(old) * Cardinality(new) THEN "declining"
      ELSE "stable"

\* C18: the trend of every analysis is "stable" when fewer than 10 reviews
\* carry both a timestamp and a rating (also when none does); with 10 or more
\* it is "improving" when the latest third averages more than 0.25 above the
\* earliest third, "declining" when more than 0.25 below, "stable" otherwise.
C18_TrendByThirds ==
  analysisPc = "done" => analysis.recentTrend = trendByThirds(combinedReviews)

\* C19: createBalancedTopReviews returns at most 5 reviews, and for every
\* platform that contributed at least one review the result holds a review
\* of that platform, also when every review of the other platform ranks higher.
C19_EveryPlatformRepresented ==
  (analysisPc = "done" /\ analysis.totalReviews > 0) =>
    /\ Len(analysis.topReviews) <= MAX_TOP_REVIEWS
    /\ \A platform \in DOMAIN collected :
         Len(collected[platform]) > 0 =>
           \E n \in 1..Len(analysis.topReviews) : analysis.topReviews[n].platform = platform

\* five reviews are returned, Google contributed five or more reviews that
\* all rank above every Yelp review, and a Yelp review is among the five
C19_Witness ==
  /\ analysisPc = "done"
  /\ analysis.totalReviews > 0
  /\ Len(analysis.topReviews) = MAX_TOP_REVIEWS
  /\ Len(collected.google) >= MAX_TOP_REVIEWS
  /\ Len(collected.yelp) > 0
  /\ \A i \in 1..Len(collected.google) : \A j \in 1..Len(collected.yelp) :
       sortScore(collected.google[i]) > sortScore(collected.yelp[j])
  /\ \E n \in 1..Len(analysis.topReviews) : analysis.topReviews[n].platform = "yelp"

qualityRank(label) ==
  CASE label = "very low" -> 0
    [] label = "low" -> 1
    [] label = "medium" -> 2
    [] label = "high" -> 3

\* avgAuth of determineDataQuality as a fraction <<sum, count>>
averageAuthenticity(reviews) ==
  IF Len(reviews) = 0 THEN <<60, 1>>
  ELSE <<authenticitySumOf(reviews), Len(reviews)>>

\* the reviews of the first request; the reviews of the current request are
\* these without the reviews and platforms removed since
baselineReviews == flatReviews(platformReviewsOf(baseline[1].collected))

\* the analysis of the current request is no better than that of the first
NoBetterThanBaseline ==
  /\ analysis.confidence <= baseline[1].analysis.confidence
  /\ qualityRank(analysis.dataQuality) <= qualityRank(baseline[1].analysis.dataQuality)
  /\ analysis.confidence \in 0..100

C21_FallbackWhenNoReviews ==
  (analysisPc = "done" /\ Len(combinedReviews) = 0) =>
    /\ analysis.unifiedScore = 0
    /\ analysis.totalReviews = 0
    /\ analysis.confidence = 10
    /\ analysis.dataQuality = "very low"
    /\ analysis.platformsUsed = 0
    /\ analysis.topReviews = <<>>
    /\ analysis.message # Undefined

\* a request for which both platforms return no review, after a request for
\* which both returned reviews, is answered with the fallback and its message
C21_Witness ==
  /\ analysisPc = "done"
  /\ Len(combinedReviews) = 0
  /\ Len(baseline[1].collected.google) > 0
  /\ Len(baseline[1].collected.yelp) > 0
  /\ analysis.confidence = 10
  /\ Len(analysis.message) > 0

\* C22: the analysis is total: for every input of per-platform review lists
\* (either or both empty, reviews lacking a rating, a timestamp, an
\* authenticity score or a text) performAdvancedAnalysisWithBalancing returns
\* a result and raises no exception.
C22_AnalysisTotal == analysisPc # "threw"

(***************************************************************************)
(* Partial source failure.                                                 *)
(***************************************************************************)
\* the fetch of exactly one source failed or timed out in handler h
OneSourceFailed(h) ==
  \/ handlers[h].fetched = [google |-> "failed", yelp |-> "fulfilled"]
  \/ handlers[h].fetched = [google |-> "fulfilled", yelp |-> "failed"]

\* the result of the engine for the listings of the surviving source and an
\* empty list for the failed one
survivingResult(h) ==
  searchResultTable[handlers[h].params,
                    IF handlers[h].fetched.google = "failed" THEN <<>> ELSE GoogleCatalog,
                    IF handlers[h].fetched.yelp = "failed" THEN <<>> ELSE YelpCatalog]

\* C23: if the fetch of exactly one source fails or times out, the handler
\* goes on with the merged and scored result of the surviving source's
\* listings and an empty list, and answers the request with status 200 and
\* that result.
C23_OneSourceSuffices ==
  /\ [](\A h \in Handlers :
          (handlers[h].pc = "summarizing" /\ OneSourceFailed(h)) =>
            handlers[h].draft = <<survivingResult(h)>>)
  /\ [][\A h \in Handlers :
          (handlers[h].pc = "summarizing" /\ OneSourceFailed(h) /\ handlers'[h].pc = "done") =>
            /\ lastResponse'[1].handler = h
            /\ lastResponse'[1].status = 200
            /\ [lastResponse'[1].body[1] EXCEPT !.aiSummary = Undefined] = survivingResult(h)
     ]_vars

\* the Google search failed, the Yelp search returned its listings, and the
\* handler holds a result with restaurants, all of them from Yelp
C23_Witness ==
  \E h \in Handlers :
    /\ handlers[h].pc = "summarizing"
    /\ handlers[h].fetched = [google |-> "failed", yelp |-> "fulfilled"]
    /\ handlers[h].draft[1].sourceCounts = [google |-> 0, yelp |-> Len(YelpCatalog)]
    /\ Len(handlers[h].draft[1].restaurants) > 0
    /\ handlers[h].draft[1].totalFound = Len(intelligentMergeRestaurants(<<>>, YelpCatalog))

(***************************************************************************)
(* Comparisons of names and addresses: the similarity functions applied to *)
(* restaurant names and addresses as calculateMatchScore applies them.     *)
(***************************************************************************)
NameUniverse ==
  {"Taco Bar", "Cafe", "Grill House", "A B", "Joe's Diner & Pub",
   "Taco Taco Taco", "Taco", "Bo Bo", "Bo B"}

AddressUniverse ==
  {"", "1 Elm St", "1 Elm St, Boston", "1 Elm St, Salem", "9 Oak Ave, Boston"}

CompareInit ==
  /\ googleRestaurants = <<>>
  /\ yelpRestaurants = <<>>
  /\ merged = <<>>
  /\ gi = 1
  /\ yi = 1
  /\ mergePc = "idle"
  /\ mergeResult = <<>>
  /\ cache = EmptyMap
  /\ now = 0
  /\ ticks = 0
  /\ handlers = [h \in Handlers |-> IdleHandler]
  /\ lastResponse = <<>>
  /\ lastWrite = EmptyMap
  /\ searchPc = "off"
  /\ search = NoSearch
  /\ fakeReviewPatterns = FreshPatterns
  /\ scoredReviews = <<>>
  /\ analysisPc = "off"
  /\ collected = <<>>
  /\ analysis = NoAnalysis
  /\ baseline = <<>>
  /\ compareResult = <<>>
  /\ executions = <<>>
  /\ \/ /\ comparePc = "names"
        /\ compareArgs \in NameUniverse \X NameUniverse
     \/ /\ comparePc = "addresses"
        /\ compareArgs \in AddressUniverse \X AddressUniverse \X AddressUniverse

\* the name part of calculateMatchScore(r1, r2) and of calculateMatchScore(r2, r1);
\* tokens is <<>> when advancedStringSimilarity returns before the token step
CompareNames ==
  /\ comparePc = "names"
  /\ comparePc' = "done"
  /\ LET s1 == normalizeRestaurantName(compareArgs[1])
         s2 == normalizeRestaurantName(compareArgs[2])
     IN  compareResult' =
           [forward |-> advancedStringSimilarity(s1, s2),
            backward |-> advancedStringSimilarity(s2, s1),
            tokens |-> IF \/ s1 = "" \/ s2 = ""
                          \/ Len(significantTokens(s1)) = 0
                          \/ Len(significantTokens(s2)) = 0
                       THEN <<>>
                       ELSE <<tokenSimilarity(s1, s2)>>]
  /\ UNCHANGED <<compareArgs, mergeVars, cacheVars, searchVars, reviewVars, analysisVars, executions>>

\* the address part of calculateMatchScore for the first and for the second
\* address, each against the third
CompareAddresses ==
  /\ comparePc = "addresses"
  /\ comparePc' = "done"
  /\ compareResult' =
       [first |-> calculateAddressSimilarity(compareArgs[1], compareArgs[3]),
        second |-> calculateAddressSimilarity(compareArgs[2], compareArgs[3])]
  /\ UNCHANGED <<compareArgs, mergeVars, cacheVars, searchVars, reviewVars, analysisVars, executions>>

CompareNext == CompareNames \/ CompareAddresses

CompareSpec == CompareInit /\ [][CompareNext]_vars

\* C24: name similarity is reflexive: for every non-empty name x,
\* advancedStringSimilarity(normalizeRestaurantName(x), normalizeRestaurantName(x))
\* is 1.0, also for names of stop-list words only and of one-character tokens.
C24_NameSimilarityReflexive ==
  (comparePc = "done" /\ Len(compareArgs) = 2 /\ compareArgs[1] = compareArgs[2]
     /\ compareArgs[1] # "")
    => compareResult.forward = SimScale

\* C27: the token-overlap similarity is in [0,1] for all pairs of strings,
\* also for strings that repeat a token; advancedStringSimilarity(a,b) is in
\* [0,1] and equals advancedStringSimilarity(b,a).
C27_TokenSimilarityInUnitInterval ==
  (comparePc = "done" /\ Len(compareArgs) = 2) =>
    /\ \A n \in 1..Len(compareResult.tokens) :
         compareResult.tokens[n] >= 0 /\ compareResult.tokens[n] <= Unit
    /\ compareResult.forward >= 0
    /\ compareResult.forward <= SimScale
    /\ compareResult.forward = compareResult.backward

\* the text of an address before its first comma
streetSegment(address) == split(address, ",")[1]

\* C28: calculateAddressSimilarity compares the street segments only: two
\* addresses with the same text before their first comma have the same
\* similarity to any third address, and the result is 0 if either address
\* is empty.
C28_StreetSegmentOnly ==
  (comparePc = "done" /\ Len(compareArgs) = 3) =>
    /\ streetSegment(compareArgs[1]) = streetSegment(compareArgs[2])
         => compareResult.first = compareResult.second
    /\ (compareArgs[1] = "" \/ compareArgs[3] = "") => compareResult.first = 0

\* C25: the authenticity examples: the review with the text "!!!" gets a
\* score of at most 0.4, and the detailed review of 600 characters without
\* generic or spam phrases gets a score of at least 0.8.
C25_AuthenticityExamples ==
  \A i \in 1..Len(scoredReviews) :
    /\ scoredReviews[i].review = ExclamationReview => scoredReviews[i].authenticity_score <= 40
    /\ scoredReviews[i].review = DetailedReview => scoredReviews[i].authenticity_score >= 80

\* C26: the consistency factor of a scored entity is its platformConsistency
\* as computed during the merge when the entity is verified on both
\* platforms (also when that value is 0), and the default 0.8 when the entity
\* came from a single source.
C26_ConsistencyFactor ==
  \A i \in 1..Len(search.scoredRestaurants) :
    LET scored == search.scoredRestaurants[i]
    IN  IF scored.restaurant.crossPlatformVerified
        THEN scored.scoreBreakdown.consistency
               = scored.restaurant.platformConsistency * (FactorScale \div 100)
        ELSE scored.scoreBreakdown.consistency = 8 * (FactorScale \div 10)

(***************************************************************************)
(* The six cached routes and the one Map they share.  /api/google-places,  *)
(* /api/yelp-search, /api/google-reviews and /api/yelp-reviews fetch from  *)
(* the platforms; /api/search-restaurants and /api/restaurant-analysis     *)
(* call the first four over HTTP on localhost and cache what they compute  *)
(* from the answers.  A handler runs to its next await in one step.  The   *)
(* keys of the listing routes and the search are disjoint from those of    *)
(* the review routes and the analysis, so a run exercises one of the two   *)
(* families of routes, with one client request in progress at a time.      *)
(***************************************************************************)
ListingEndpoints == {"google-places", "yelp-search"}
ReviewEndpoints == {"google-reviews", "yelp-reviews"}
SourceEndpoints == ListingEndpoints \cup ReviewEndpoints
OuterEndpoints == {"search-restaurants", "restaurant-analysis"}
Endpoints == SourceEndpoints \cup OuterEndpoints

Families == { ListingEndpoints \cup {"search-restaurants"},
              ReviewEndpoints \cup {"restaurant-analysis"} }

\* fetches counts the requests the execution sent out; removed records that
\* its lookup deleted an expired entry (both are history fields)
IdleExecution ==
  [pc |-> "idle", caller |-> Undefined, request |-> <<>>, cacheKey |-> Undefined,
   called |-> {}, responses |-> EmptyMap, draft |-> <<>>, fetches |-> 0, removed |-> FALSE]

ListingRequest(query, location) == [query |-> query, location |-> location]
ReviewsRequest(id) == [id |-> id]
AnalysisRequest(google_id, yelp_id, name) ==
  [google_id |-> google_id, yelp_id |-> yelp_id, name |-> name]

\* the requests clients send to the four source routes
ClientSourceRequests(e) ==
  IF e \in ListingEndpoints
  THEN {ListingRequest("taco", "Boston,MA"), ListingRequest("t", "Boston,MA")}
  ELSE {ReviewsRequest(IF e = "google-reviews" THEN "g1" ELSE "y1"), ReviewsRequest(Undefined)}

\* the requests clients send to the two computing routes
OuterRequests(o) ==
  IF o = "search-restaurants"
  THEN {q \in SearchRequests : q.cuisine = Undefined /\ q.priceRange = Undefined}
  ELSE {AnalysisRequest("g1", "y1", Undefined), AnalysisRequest(Undefined, Undefined, Undefined)}

\* validateSearchParams(query, location) on the listing routes,
\* `if (!place_id)` and `if (!business_id)` on the review routes
sourceRequestValid(e, r) ==
  IF e \in ListingEndpoints THEN validateSearchParams(r.query, r.location)
  ELSE r.id /= Undefined

\* the status of the rejection: validateSearchParams throws an Error without
\* a response (error.response?.status || 500); a missing id is answered 400
rejectionStatus(e) == IF e \in ListingEndpoints \/ e = "search-restaurants" THEN 500 ELSE 400

\* the template strings of the source routes' cache keys
sourceCacheKey(e, r) ==
  IF e \in ListingEndpoints THEN e \o "-" \o r.query \o "-" \o r.location
  ELSE e \o "-" \o r.id

\* `if (!google_id && !yelp_id && !name)`, and validateSearchParams
outerRequestValid(o, r) ==
  IF o = "search-restaurants" THEN requestTable[r].valid
  ELSE r.google_id /= Undefined \/ r.yelp_id /= Undefined \/ r.name /= Undefined

outerCacheKey(o, r) ==
  IF o = "search-restaurants" THEN requestTable[r].cacheKey
  ELSE "analysis-" \o orElse(r.google_id, "none") \o "-" \o orElse(r.yelp_id, "none")
         \o "-" \o orElse(r.name, "none")

\* the source routes a computing handler calls: both listing routes for a
\* search, the review route of every id given for an analysis
sourcesOf(o, r) ==
  IF o = "search-restaurants" THEN ListingEndpoints
  ELSE {e \in ReviewEndpoints : (IF e = "google-reviews" THEN r.google_id ELSE r.yelp_id) /= Undefined}

\* the parameters of the call to source route e
internalRequest(o, r, e) ==
  IF o = "search-restaurants"
  THEN ListingRequest(requestTable[r].params.query, requestTable[r].params.location)
  ELSE ReviewsRequest(IF e = "google-reviews" THEN r.google_id ELSE r.yelp_id)

\* reviews.filter(review => review.authenticity_score > 0.3)
authenticReviews(reviews) == SelectSeq(reviews, LAMBDA review : review.authenticity_score > 30)

\* what the platform behind a source route can return
UpstreamContents(e) ==
  CASE e = "google-places" -> {GoogleCatalog}
    [] e = "yelp-search" -> {YelpCatalog}
    [] e = "google-reviews" ->
         { << AnalysisReview(5, "Great tacos and friendly staff", "Ann", 100, 70, 0),
              AnalysisReview(NoRating, "Lovely patio", "Cy", 0, 0, 0) >>,
           << AnalysisReviewWithoutText(4, "Gus", 120, 70, 0) >> }
    [] e = "yelp-reviews" -> { << AnalysisReview(3, "Decent burritos", "Dee", 150, 35, 0) >> }

\* the reviews of the fallback branch of /api/yelp-reviews
SyntheticReviews == << AnalysisReview(4, "Popular local spot", "AI Customer", 0, 70, 0) >>

\* the body a source route builds and caches; fetchedAt is a history field,
\* the time at which the platform answered
SourceData(e, content, time) ==
  [content |-> IF e \in ReviewEndpoints THEN authenticReviews(content) ELSE content,
   fetchedAt |-> time]

\* `error.response?.status || 500` in the catch blocks
FailureStatuses == {429, 500}

EndpointResponse(e, x, status, body, fromCache, rejected, time) ==
  [endpoint |-> e, caller |-> x.caller, request |-> x.request, cacheKey |-> x.cacheKey,
   status |-> status, body |-> body, fromCache |-> fromCache, rejected |-> rejected,
   fetches |-> x.fetches, removed |-> x.removed, sentAt |-> time]

put(f, k, v) == [x \in (DOMAIN f) \cup {k} |-> IF x = k THEN v ELSE f[x]]

\* no request is being handled
Quiet(execs) == \A e \in DOMAIN execs : execs[e].pc = "idle"

\* the requests that can reach source route e: from a client, or from a
\* computing handler that has not called e yet
Arrivals(e) ==
  {[caller |-> "client", request |-> r] : r \in ClientSourceRequests(e)}
    \cup {[caller |-> o, request |-> internalRequest(o, executions[o].request, e)] :
            o \in {x \in OuterEndpoints \cap DOMAIN executions :
                     /\ executions[x].pc = "fetching"
                     /\ e \in sourcesOf(x, executions[x].request) \ executions[x].called}}

MayArrive(a) == a.caller = "client" => Quiet(executions)

\* the executions after the request of arrival a left its caller
afterCall(execs, a, e) ==
  IF a.caller = "client" THEN execs
  ELSE [execs EXCEPT ![a.caller].called = @ \cup {e}, ![a.caller].fetches = @ + 1]

\* the executions after source route e answered: the caller, if it is a
\* computing handler, holds the answer
afterResponse(execs, e, response) ==
  [x \in DOMAIN execs |->
     IF x = e THEN IdleExecution
     ELSE IF x = response.caller THEN [execs[x] EXCEPT !.responses = put(@, e, response)]
     ELSE execs[x]]

arrived(a, e) ==
  [IdleExecution EXCEPT !.caller = a.caller, !.request = a.request,
                        !.cacheKey = sourceCacheKey(e, a.request)]

EndpointInit ==
  /\ googleRestaurants = <<>>
  /\ yelpRestaurants = <<>>
  /\ merged = <<>>
  /\ gi = 1
  /\ yi = 1
  /\ mergePc = "idle"
  /\ mergeResult = <<>>
  /\ cache = EmptyMap
  /\ now = 0
  /\ ticks = 0
  /\ handlers = [h \in Handlers |-> IdleHandler]
  /\ lastResponse = <<>>
  /\ lastWrite = EmptyMap
  /\ searchPc = "off"
  /\ search = NoSearch
  /\ fakeReviewPatterns = FreshPatterns
  /\ scoredReviews = <<>>
  /\ analysisPc = "off"
  /\ collected = <<>>
  /\ analysis = NoAnalysis
  /\ baseline = <<>>
  /\ comparePc = "off"
  /\ compareArgs = <<>>
  /\ compareResult = <<>>
  /\ executions \in {[e \in family |-> IdleExecution] : family \in Families}

\* a source route rejects the request before it reads the cache
SourceRejected(e) ==
  \E a \in Arrivals(e) :
    /\ executions[e].pc = "idle"
    /\ MayArrive(a)
    /\ ~sourceRequestValid(e, a.request)
    /\ lastResponse' = <<EndpointResponse(e, [arrived(a, e) EXCEPT !.cacheKey = Undefined],
                                         rejectionStatus(e), <<>>, FALSE, TRUE, now)>>
    /\ executions' = afterResponse(afterCall(executions, a, e), e, lastResponse'[1])
    /\ UNCHANGED <<cache, now, ticks, handlers, lastWrite, mergeVars, searchVars, reviewVars,
                   analysisVars, compareVars>>

\* getCachedData returns the entry: res.json(cached)
SourceCacheHit(e) ==
  \E a \in Arrivals(e) :
    /\ executions[e].pc = "idle"
    /\ MayArrive(a)
    /\ sourceRequestValid(e, a.request)
    /\ getCachedData(cache, sourceCacheKey(e, a.request), now) /= <<>>
    /\ cache' = cacheAfterGet(cache, sourceCacheKey(e, a.request), now)
    /\ lastResponse' = <<EndpointResponse(e, arrived(a, e), 200,
                                         getCachedData(cache, sourceCacheKey(e, a.request), now),
                                         TRUE, FALSE, now)>>
    /\ executions' = afterResponse(afterCall(executions, a, e), e, lastResponse'[1])
    /\ UNCHANGED <<now, ticks, handlers, lastWrite, mergeVars, searchVars, reviewVars,
                   analysisVars, compareVars>>

\* getCachedData returns null: the handler sends its request to the platform
SourceCacheMiss(e) ==
  \E a \in Arrivals(e) :
    /\ executions[e].pc = "idle"
    /\ MayArrive(a)
    /\ sourceRequestValid(e, a.request)
    /\ getCachedData(cache, sourceCacheKey(e, a.request), now) = <<>>
    /\ cache' = cacheAfterGet(cache, sourceCacheKey(e, a.request), now)
    /\ executions' = [afterCall(executions, a, e) EXCEPT
                        ![e] = [arrived(a, e) EXCEPT
                                  !.pc = "upstream", !.fetches = 1,
                                  !.removed = sourceCacheKey(e, a.request) \in DOMAIN cache]]
    /\ UNCHANGED <<now, ticks, handlers, lastResponse, lastWrite, mergeVars, searchVars,
                   reviewVars, analysisVars, compareVars>>

\* the platform answers: setCachedData(cacheKey, result); res.json(result)
SourceUpstreamReturned(e) ==
  \E content \in UpstreamContents(e) :
    /\ executions[e].pc = "upstream"
    /\ cache' = setCachedData(cache, executions[e].cacheKey, SourceData(e, content, now), now)
    /\ lastResponse' = <<EndpointResponse(e, executions[e], 200, <<SourceData(e, content, now)>>,
                                         FALSE, FALSE, now)>>
    /\ executions' = afterResponse(executions, e, lastResponse'[1])
    /\ UNCHANGED <<now, ticks, handlers, lastWrite, mergeVars, searchVars, reviewVars,
                   analysisVars, compareVars>>

\* the request to the platform fails or times out: the catch block answers
\* with an error status; /api/yelp-reviews asks for the business instead
SourceUpstreamFailed(e) ==
  /\ executions[e].pc = "upstream"
  /\ IF e = "yelp-reviews"
     THEN /\ executions' = [executions EXCEPT ![e].pc = "fallback", ![e].fetches = @ + 1]
          /\ UNCHANGED lastResponse
     ELSE \E status \in FailureStatuses :
            /\ lastResponse' = <<EndpointResponse(e, executions[e], status, <<>>,
                                                 FALSE, FALSE, now)>>
            /\ executions' = afterResponse(executions, e, lastResponse'[1])
  /\ UNCHANGED <<cache, now, ticks, handlers, lastWrite, mergeVars, searchVars, reviewVars,
                 analysisVars, compareVars>>

\* the fallback of /api/yelp-reviews: synthetic reviews are cached and sent;
\* when the business request fails too, the outer catch sends an empty list
\* with status 200 and writes nothing
SourceFallbackSettled(e) ==
  /\ e = "yelp-reviews"
  /\ executions[e].pc = "fallback"
  /\ \/ /\ cache' = setCachedData(cache, executions[e].cacheKey,
                                  [content |-> SyntheticReviews, fetchedAt |-> now], now)
        /\ lastResponse' = <<EndpointResponse(e, executions[e], 200,
                                             <<[content |-> SyntheticReviews, fetchedAt |-> now]>>,
                                             FALSE, FALSE, now)>>
     \/ /\ cache' = cache
        /\ lastResponse' = <<EndpointResponse(e, executions[e], 200, <<>>, FALSE, FALSE, now)>>
  /\ executions' = afterResponse(executions, e, lastResponse'[1])
  /\ UNCHANGED <<now, ticks, handlers, lastWrite, mergeVars, searchVars, reviewVars,
                 analysisVars, compareVars>>

\* what a computing handler takes from the answer of source route e:
\* searchGooglePlaces, searchYelpBusinesses, getGoogleReviews and
\* getYelpReviews turn a failed call into an empty list
sourceContent(responses, e) ==
  IF e \in DOMAIN responses /\ responses[e].status = 200 /\ responses[e].body /= <<>>
  THEN responses[e].body[1].content
  ELSE <<>>

\* the times at which the source data in the answers was fetched
sourceTimes(responses) ==
  {responses[e].body[1].fetchedAt :
     e \in {x \in DOMAIN responses : responses[x].status = 200 /\ responses[x].body /= <<>>}}

\* what the computing handler makes of the answers: the search result, or
\* performAdvancedAnalysisWithBalancing(successfulReviews)
outerResult(o, r, responses) ==
  IF o = "search-restaurants"
  THEN searchResultTable[requestTable[r].params, sourceContent(responses, "google-places"),
                         sourceContent(responses, "yelp-search")]
  ELSE performAdvancedAnalysisWithBalancing(
         [google |-> sourceContent(responses, "google-reviews"),
          yelp |-> sourceContent(responses, "yelp-reviews")])

\* whether the handler awaits the language model before it answers: the
\* search always, the analysis when allPlatformReviews.length > 0
awaitsSummary(o, responses) ==
  \/ o = "search-restaurants"
  \/ Len(sourceContent(responses, "google-reviews"))
       + Len(sourceContent(responses, "yelp-reviews")) > 0

outerArrived(o, r) ==
  [IdleExecution EXCEPT !.caller = "client", !.request = r]

\* a computing handler rejects the request before it reads the cache
OuterRejected(o) ==
  \E r \in OuterRequests(o) :
    /\ executions[o].pc = "idle"
    /\ Quiet(executions)
    /\ ~outerRequestValid(o, r)
    /\ lastResponse' = <<EndpointResponse(o, outerArrived(o, r), rejectionStatus(o), <<>>,
                                         FALSE, TRUE, now)>>
    /\ UNCHANGED <<cache, now, ticks, handlers, lastWrite, mergeVars, searchVars, reviewVars,
                   analysisVars, compareVars, executions>>

\* getCachedData returns the entry: res.json(cached)
OuterCacheHit(o) ==
  \E r \in OuterRequests(o) :
    /\ executions[o].pc = "idle"
    /\ Quiet(executions)
    /\ outerRequestValid(o, r)
    /\ getCachedData(cache, outerCacheKey(o, r), now) /= <<>>
    /\ cache' = cacheAfterGet(cache, outerCacheKey(o, r), now)
    /\ lastResponse' = <<EndpointResponse(o, [outerArrived(o, r) EXCEPT
                                                !.cacheKey = outerCacheKey(o, r)],
                                         200, getCachedData(cache, outerCacheKey(o, r), now),
                                         TRUE, FALSE, now)>>
    /\ UNCHANGED <<now, ticks, handlers, lastWrite, mergeVars, searchVars, reviewVars,
                   analysisVars, compareVars, executions>>

\* getCachedData returns null: the handler calls its source routes
OuterCacheMiss(o) ==
  \E r \in OuterRequests(o) :
    /\ executions[o].pc = "idle"
    /\ Quiet(executions)
    /\ outerRequestValid(o, r)
    /\ getCachedData(cache, outerCacheKey(o, r), now) = <<>>
    /\ cache' = cacheAfterGet(cache, outerCacheKey(o, r), now)
    /\ executions' = [executions EXCEPT
                        ![o] = [outerArrived(o, r) EXCEPT
                                  !.pc = "fetching", !.cacheKey = outerCacheKey(o, r),
                                  !.removed = outerCacheKey(o, r) \in DOMAIN cache]]
    /\ UNCHANGED <<now, ticks, handlers, lastResponse, lastWrite, mergeVars, searchVars,
                   reviewVars, analysisVars, compareVars>>

\* the handler after Promise.allSettled, with the result it computed: an
\* exception is answered with status 500; without an await for the language
\* model the result is cached and sent at once
OuterSettledWith(o, result, summary) ==
  IF result = TypeError
  THEN /\ lastResponse' = <<EndpointResponse(o, executions[o], 500, <<>>, FALSE, FALSE, now)>>
       /\ executions' = [executions EXCEPT ![o] = IdleExecution]
       /\ cache' = cache
  ELSE IF summary
  THEN /\ executions' = [executions EXCEPT
                           ![o].pc = "summarizing",
                           ![o].draft = <<[result |-> result,
                                           sourceTimes |-> sourceTimes(executions[o].responses)]>>]
       /\ UNCHANGED <<cache, lastResponse>>
  ELSE /\ cache' = setCachedData(cache, executions[o].cacheKey,
                                 [result |-> result,
                                  sourceTimes |-> sourceTimes(executions[o].responses)], now)
       /\ lastResponse' = <<EndpointResponse(o, executions[o], 200, <<cache'[executions[o].cacheKey].data>>,
                                            FALSE, FALSE, now)>>
       /\ executions' = [executions EXCEPT ![o] = IdleExecution]

\* every source route called has answered
OuterSettled(o) ==
  /\ executions[o].pc = "fetching"
  /\ DOMAIN executions[o].responses = sourcesOf(o, executions[o].request)
  /\ OuterSettledWith(o, outerResult(o, executions[o].request, executions[o].responses),
                      awaitsSummary(o, executions[o].responses))
  /\ UNCHANGED <<now, ticks, handlers, lastWrite, mergeVars, searchVars, reviewVars,
                 analysisVars, compareVars>>

\* the language model answered or failed (callGemini returns null):
\* setCachedData(cacheKey, result); res.json(result)
OuterSummarized(o) ==
  /\ executions[o].pc = "summarizing"
  /\ cache' = setCachedData(cache, executions[o].cacheKey, executions[o].draft[1], now)
  /\ lastResponse' = <<EndpointResponse(o, executions[o], 200, executions[o].draft,
                                       FALSE, FALSE, now)>>
  /\ executions' = [executions EXCEPT ![o] = IdleExecution]
  /\ UNCHANGED <<now, ticks, handlers, lastWrite, mergeVars, searchVars, reviewVars,
                 analysisVars, compareVars>>

\* time passes: a millisecond at any point, most of a cache period only
\* between requests (every await of a handler has a timeout of 10 s or less)
EndpointTick ==
  \E d \in {1, CACHE_DURATION - 1} :
    /\ ticks < MaxTicks
    /\ d > 1 => Quiet(executions)
    /\ now' = now + d
    /\ ticks' = ticks + 1
    /\ UNCHANGED <<cache, handlers, lastResponse, lastWrite, mergeVars, searchVars, reviewVars,
                   analysisVars, compareVars, executions>>

EndpointNext ==
  \/ \E e \in SourceEndpoints \cap DOMAIN executions : SourceRejected(e)
  \/ \E e \in SourceEndpoints \cap DOMAIN executions : SourceCacheHit(e)
  \/ \E e \in SourceEndpoints \cap DOMAIN executions : SourceCacheMiss(e)
  \/ \E e \in SourceEndpoints \cap DOMAIN executions : SourceUpstreamReturned(e)
  \/ \E e \in SourceEndpoints \cap DOMAIN executions : SourceUpstreamFailed(e)
  \/ \E e \in SourceEndpoints \cap DOMAIN executions : SourceFallbackSettled(e)
  \/ \E o \in OuterEndpoints \cap DOMAIN executions : OuterRejected(o)
  \/ \E o \in OuterEndpoints \cap DOMAIN executions : OuterCacheHit(o)
  \/ \E o \in OuterEndpoints \cap DOMAIN executions : OuterCacheMiss(o)
  \/ \E o \in OuterEndpoints \cap DOMAIN executions : OuterSettled(o)
  \/ \E o \in OuterEndpoints \cap DOMAIN executions : OuterSummarized(o)
  \/ EndpointTick

EndpointSpec == EndpointInit /\ [][EndpointNext]_vars

\* C29: every search or analysis response sent with status 200 carries only
\* source data that was fetched less than CACHE_DURATION before the
\* response is sent.
C29_SourceDataFresh ==
  \A i \in DOMAIN lastResponse :
    (lastResponse[i].endpoint \in OuterEndpoints /\ lastResponse[i].status = 200) =>
      \A fetchedAt \in lastResponse[i].body[1].sourceTimes :
        lastResponse[i].sentAt - fetchedAt < CACHE_DURATION

\* the step in which the handler of route e answers with an error status
errorResponded(e) ==
  /\ lastResponse' /= <<>>
  /\ lastResponse'[1].endpoint = e
  /\ lastResponse'[1].status >= 400
  /\ \/ lastResponse' /= lastResponse
     \/ executions[e].pc /= "idle" /\ executions'[e].pc = "idle"

\* the step in which the handler of route e reads the cache and goes on to
\* fetch, the key it read being k
lookedUp(e, k) ==
  /\ executions[e].pc = "idle"
  /\ executions'[e].pc /= "idle"
  /\ executions'[e].cacheKey = k

\* C30: a handler execution that ends in an error response writes nothing to
\* the cache: the answering step leaves the cache as it is, a rejection has
\* sent no request to a source, and the only change the execution makes is
\* its lookup's removal of an expired entry under its own key.
C30_ErrorLeavesCache ==
  [][\A e \in DOMAIN executions :
       /\ errorResponded(e) =>
            /\ cache' = cache
            /\ lastResponse'[1].rejected =>
                 /\ lastResponse'[1].fetches = 0
                 /\ executions' = executions
       /\ \A k \in DOMAIN cache \cup {executions'[e].cacheKey} :
            lookedUp(e, k) =>
              \/ cache' = cache
              \/ /\ k \in DOMAIN cache
                 /\ now - cache[k].timestamp >= CACHE_DURATION
                 /\ cache' = [x \in (DOMAIN cache) \ {k} |-> cache[x]]]_vars

\* an upstream failure answered with an error status, after the lookup
\* removed the expired entry of the request's key; an expired entry under
\* another key is still in the cache
C30_Witness ==
  /\ lastResponse /= <<>>
  /\ lastResponse[1].status >= 400
  /\ ~lastResponse[1].rejected
  /\ lastResponse[1].fetches = 1
  /\ lastResponse[1].removed
  /\ lastResponse[1].cacheKey \notin DOMAIN cache
  /\ \E k \in DOMAIN cache : now - cache[k].timestamp >= CACHE_DURATION

====
